---- MODULE Spec2Model ----
(***************************************************************************)
(* Model of the ai_sam_insights scan run (insights.scan) and of the        *)
(* fingerprint-keyed Finding Store (insights.finding).                     *)
(*                                                                         *)
(* Two tables are the persistent state: scans and findings, both kept as   *)
(* sequences whose index is the record id.  proc holds the position of the *)
(* action_run_scan call in flight for each scan.                           *)
(***************************************************************************)
EXTENDS Integers, Sequences, FiniteSets, TLC

VARIABLES
    scans,      \* insights.scan table: Seq of scan records, id = index
    findings,   \* insights.finding table: Seq of finding records, id = index
    proc,       \* per scan id: position and locals of its action_run_scan call
    now,        \* fields.Datetime.now(), in units of one run request
    tree,       \* analyzer findings for the source tree last analysed
    ret,        \* outcome of the last call (return value or raised error)
    calls,      \* history: find_or_create calls that returned, per fingerprint
    lastRun,    \* history: store summary at the end of the last finished run
    prevRun,    \* history: store summary at the end of the run before it
    source,     \* what a scanner or analyzer called on its own is given
    results     \* what that scanner or analyzer has collected so far

vars == <<scans, findings, proc, now, tree, ret, calls, lastRun, prevRun, source, results>>

----------------------------------------------------------------------------
(* Bounds of the model                                                     *)

MaxScans == 2       \* scan records ever created
MaxTime  == 2       \* last clock value; the clock advances with every run
MaxTriaged == 1     \* findings a user has taken out of status 'new'
MaxIssues == 3      \* findings of one kind that the analyzers report for a tree
MaxFiles == 2       \* files of a source tree given to the scanners
MaxModels == 3      \* models of the IR given to the similar-model detector
MaxNames == 3       \* names given to one call of the rename detector
MaxClasses == 2     \* model records given to the dangling-field detector
MaxViews == 2       \* views given to the dangling-field detector
MaxNodes == 3       \* models of the dependency graph
MaxStatements == 2  \* class statements given to the orphaned-model check
MaxMenus == 2       \* menu entries given to the orphaned-menu check
MaxLines == 4       \* lines of a file given to the commented-code detector

ScanIds == 1..MaxScans

----------------------------------------------------------------------------
(* Analyzer findings and source trees                                      *)

\* The keys of a finding's details dict that _generate_fingerprint reads,
\* plus the line that tells two hits in one file apart.  "" is an absent key.
NoDetails ==
    [file |-> "", relative_path |-> "", model |-> "", model_name |-> "",
     xml_id |-> "", view_xml_id |-> "", line |-> 0]

\* One analyzer finding: the bucket it was appended to, its declared
\* severity, the rest of its dict.
Item(bucket, severity, details) ==
    [bucket |-> bucket, severity |-> severity, details |-> details]

HardcodedPath(line) ==
    Item("hardcoded_external_paths", "critical",
         [NoDetails EXCEPT !.file = "a.py", !.line = line])

DanglingModelRef ==
    Item("dangling_model_refs", "error",
         [NoDetails EXCEPT !.file = "m.py", !.model = "task", !.line = 7])

CommentedBlock ==
    Item("python", "warning",
         [NoDetails EXCEPT !.relative_path = "a.py", !.line = 3])

OrphanedModel ==
    Item("orphaned_models", "info",
         [NoDetails EXCEPT !.file = "m.py", !.model = "task", !.line = 7])

\* a hardcoded path outside github-repos
HardcodedWarning(line) ==
    Item("hardcoded_external_paths", "warning",
         [NoDetails EXCEPT !.file = "b.py", !.line = line])

\* one model name defined twice without inheritance
DuplicateModel ==
    Item("duplicate_models", "error", [NoDetails EXCEPT !.model_name = "task"])

\* two models whose field sets overlap by 85% or more
SimilarModels ==
    Item("similar_models", "warning", NoDetails)

\* What the analyzers return for a tree: one list per analyzer.
EmptyTree == [duplicate |-> <<>>, orphan |-> <<>>, commented |-> <<>>,
              external |-> <<>>, python_errors |-> 0, xml_errors |-> 0,
              traces |-> 0]

TreeA == [EmptyTree EXCEPT !.external = <<HardcodedPath(1)>>]

TreeB == [EmptyTree EXCEPT !.external = <<HardcodedPath(1), HardcodedPath(5)>>,
                           !.traces = 1]

TreeC == [EmptyTree EXCEPT !.orphan = <<DanglingModelRef, OrphanedModel>>,
                           !.commented = <<CommentedBlock>>,
                           !.traces = 1]

\* the trees a run of the full model may find on disk
Trees == {TreeA, TreeB}

\* the trees of the idempotence check
FixedTrees == {EmptyTree, TreeA, TreeB, TreeC}

\* the trees of the report checks, by the number of findings of each kind
TreeOf(hc, hw, de, sm, dr, om, cb, pe) ==
    [duplicate |-> [i \in 1..de |-> DuplicateModel]
                   \o [i \in 1..sm |-> SimilarModels],
     orphan |-> [i \in 1..dr |-> DanglingModelRef]
                \o [i \in 1..om |-> OrphanedModel],
     commented |-> [i \in 1..cb |-> CommentedBlock],
     external |-> [i \in 1..hc |-> HardcodedPath(i)]
                  \o [i \in 1..hw |-> HardcodedWarning(i)],
     python_errors |-> pe, xml_errors |-> 0, traces |-> 0]

ReportTrees ==
    {TreeOf(hc, hw, de, sm, dr, om, cb, pe) :
        hc \in 0..MaxIssues, om \in 0..MaxIssues,
        hw \in 0..1, de \in 0..1, sm \in 0..1, dr \in 0..1, cb \in 0..1,
        pe \in 0..1}

----------------------------------------------------------------------------
(* EcosystemAnalyzer: report generation                                    *)

RECURSIVE SelectBucket(_, _)
SelectBucket(items, bucket) ==
    IF items = <<>> THEN <<>>
    ELSE (IF Head(items).bucket = bucket THEN <<Head(items)>> ELSE <<>>)
         \o SelectBucket(Tail(items), bucket)

RECURSIVE FlattenBuckets(_, _)
FlattenBuckets(items, buckets) ==
    IF buckets = <<>> THEN <<>>
    ELSE SelectBucket(items, Head(buckets)) \o FlattenBuckets(items, Tail(buckets))

DuplicateBuckets == <<"duplicate_models", "duplicate_functions", "duplicate_methods",
                      "duplicate_css_classes", "duplicate_views", "renamed_components">>
OrphanBuckets == <<"orphaned_python_files", "orphaned_models", "orphaned_views",
                   "orphaned_actions", "orphaned_menus", "dangling_field_refs",
                   "dangling_model_refs", "orphaned_assets">>
CommentedBuckets == <<"python", "javascript", "xml">>
ExternalBuckets == <<"hardcoded_external_paths", "relative_path_escapes",
                     "suspicious_file_operations", "external_imports">>

Issue(category, type, item) ==
    [category |-> category, type |-> type, details |-> item.details]

\* the issues of one analyzer whose declared severity is in sevs
RECURSIVE IssuesOf(_, _, _, _)
IssuesOf(items, category, sevs, isCommented) ==
    IF items = <<>> THEN <<>>
    ELSE LET it == Head(items)
             type == IF isCommented THEN "commented_" \o it.bucket \o "_code"
                     ELSE it.bucket
         IN (IF it.severity \in sevs THEN <<Issue(category, type, it)>> ELSE <<>>)
            \o IssuesOf(Tail(items), category, sevs, isCommented)

AllSeverities == {"critical", "error", "warning", "info"}

\* a categorisation that takes a finding declared info for a warning
CategorizeIssuesInfoAsWarning(t) ==
    LET dup == FlattenBuckets(t.duplicate, DuplicateBuckets)
        orp == FlattenBuckets(t.orphan, OrphanBuckets)
        com == FlattenBuckets(t.commented, CommentedBuckets)
        ext == FlattenBuckets(t.external, ExternalBuckets)
    IN [critical_issues |->
            IssuesOf(dup, "duplicate", {"error"}, FALSE)
            \o IssuesOf(orp, "orphan", {"error"}, FALSE)
            \o IssuesOf(com, "commented_code", {"error"}, TRUE)
            \o IssuesOf(ext, "external_path", {"critical"}, FALSE),
        warnings |->
            IssuesOf(dup, "duplicate", {"warning", "info"}, FALSE)
            \o IssuesOf(orp, "orphan", {"warning", "info"}, FALSE)
            \o IssuesOf(com, "commented_code", {"warning", "info"}, TRUE)
            \o IssuesOf(ext, "external_path", AllSeverities \ {"critical"}, FALSE)]

CategorizeIssues(t) ==
    LET dup == FlattenBuckets(t.duplicate, DuplicateBuckets)
        orp == FlattenBuckets(t.orphan, OrphanBuckets)
        com == FlattenBuckets(t.commented, CommentedBuckets)
        ext == FlattenBuckets(t.external, ExternalBuckets)
    IN [critical_issues |->
            IssuesOf(dup, "duplicate", {"error"}, FALSE)
            \o IssuesOf(orp, "orphan", {"error"}, FALSE)
            \o IssuesOf(com, "commented_code", {"error"}, TRUE)
            \o IssuesOf(ext, "external_path", {"critical"}, FALSE),
        warnings |->
            IssuesOf(dup, "duplicate", {"warning"}, FALSE)
            \o IssuesOf(orp, "orphan", {"warning"}, FALSE)
            \o IssuesOf(com, "commented_code", {"warning"}, TRUE)
            \o IssuesOf(ext, "external_path", AllSeverities \ {"critical"}, FALSE)]

Digit(n) == CASE n = 0 -> "0" [] n = 1 -> "1" [] n = 2 -> "2" [] n = 3 -> "3"
              [] n = 4 -> "4" [] OTHER -> "many"

Recommendation(priority, category, type, title, description, effort) ==
    [priority |-> priority, category |-> category, type |-> type,
     title |-> title, description |-> description, effort |-> effort]

PriorityOrder(p) == CASE p = "critical" -> 0 [] p = "high" -> 1
                      [] p = "medium" -> 2 [] OTHER -> 3

RECURSIVE SortByPriority(_, _)
SortByPriority(recs, p) ==
    IF p > 3 THEN <<>>
    ELSE SelectSeq(recs, LAMBDA r : PriorityOrder(r.priority) = p)
         \o SortByPriority(recs, p + 1)

GenerateRecommendations(t) ==
    LET dangling == Len(SelectBucket(t.orphan, "dangling_model_refs"))
        markers == Len(SelectSeq(t.commented, LAMBDA c : c.severity = "warning"))
        hardcoded == Len(SelectBucket(t.external, "hardcoded_external_paths"))
        escapes == Len(SelectBucket(t.external, "relative_path_escapes"))
        suspicious == Len(SelectBucket(t.external, "suspicious_file_operations"))
        recs ==
          (IF dangling > 0
           THEN <<Recommendation("critical", "bug_fix", "dangling_model_refs",
                     "Fix Dangling Model References",
                     "Found " \o Digit(dangling) \o " references to non-existent models.",
                     "medium")>>
           ELSE <<>>)
          \o (IF markers > 0
              THEN <<Recommendation("high", "cleanup", "commented_code_deletion",
                        "Remove Code Marked for Deletion",
                        "Found " \o Digit(markers) \o " comments with deletion markers.",
                        "low")>>
              ELSE <<>>)
          \o (IF hardcoded > 0
              THEN <<Recommendation("critical", "architecture", "external_path_hardcoded",
                        "CRITICAL: Remove Hardcoded External Paths",
                        "Found " \o Digit(hardcoded) \o " hardcoded paths to external repositories.",
                        "high")>>
              ELSE <<>>)
          \o (IF escapes > 0
              THEN <<Recommendation("high", "architecture", "external_path_relative",
                        "Fix Relative Path Escapes",
                        "Found " \o Digit(escapes) \o " relative paths that escape module boundaries.",
                        "medium")>>
              ELSE <<>>)
          \o (IF suspicious > 0
              THEN <<Recommendation("high", "architecture", "external_file_operations",
                        "Review Suspicious File Operations",
                        "Found " \o Digit(suspicious) \o " file operations targeting external locations.",
                        "medium")>>
              ELSE <<>>)
    IN SortByPriority(recs, 0)

\* the score without max(0, ...)
CalculateHealthScoreUnclamped(t, critical_issues, warnings) ==
    LET tenths == 1000
                  - Len(critical_issues) * 100
                  - Len(warnings) * 20
                  - Len(FlattenBuckets(t.duplicate, DuplicateBuckets)) * 5
                  - Len(t.orphan) * 3
                  - Len(SelectBucket(t.external, "hardcoded_external_paths")) * 150
                  - Len(SelectBucket(t.external, "relative_path_escapes")) * 100
                  - Len(SelectBucket(t.external, "suspicious_file_operations")) * 80
                  - Len(SelectBucket(t.external, "external_imports")) * 50
                  - t.python_errors * 20
                  - t.xml_errors * 20
        truncated == IF tenths >= 0 THEN tenths \div 10 ELSE -((-tenths) \div 10)
    IN IF truncated < 100 THEN truncated ELSE 100

\* score in tenths, so that the 0.5 and 0.3 weights stay integral
CalculateHealthScore(t, critical_issues, warnings) ==
    LET tenths == 1000
                  - Len(critical_issues) * 100
                  - Len(warnings) * 20
                  - Len(FlattenBuckets(t.duplicate, DuplicateBuckets)) * 5
                  - Len(t.orphan) * 3
                  - Len(SelectBucket(t.external, "hardcoded_external_paths")) * 150
                  - Len(SelectBucket(t.external, "relative_path_escapes")) * 100
                  - Len(SelectBucket(t.external, "suspicious_file_operations")) * 80
                  - Len(SelectBucket(t.external, "external_imports")) * 50
                  - t.python_errors * 20
                  - t.xml_errors * 20
        truncated == IF tenths >= 0 THEN tenths \div 10 ELSE -((-tenths) \div 10)
        capped == IF truncated < 100 THEN truncated ELSE 100
    IN IF capped > 0 THEN capped ELSE 0

\* the bands with their lower limits left out
GetHealthStatusStrict(score) ==
    IF score > 90 THEN "Excellent"
    ELSE IF score > 75 THEN "Good"
    ELSE IF score > 60 THEN "Fair"
    ELSE IF score > 40 THEN "Poor"
    ELSE "Critical"

GetHealthStatus(score) ==
    IF score >= 90 THEN "Excellent"
    ELSE IF score >= 75 THEN "Good"
    ELSE IF score >= 60 THEN "Fair"
    ELSE IF score >= 40 THEN "Poor"
    ELSE "Critical"

GenerateReport(t) ==
    LET cat == CategorizeIssues(t)
        score == CalculateHealthScore(t, cat.critical_issues, cat.warnings)
    IN [health_score |-> score,
        health_status |-> GetHealthStatus(score),
        critical_issues |-> cat.critical_issues,
        warnings |-> cat.warnings,
        recommendations |-> GenerateRecommendations(t),
        critical_count |-> Len(cat.critical_issues),
        warning_count |-> Len(cat.warnings),
        traces |-> t.traces]

----------------------------------------------------------------------------
(* insights.finding: the Finding Store                                     *)

Statuses == {"new", "acknowledged", "in_progress", "resolved", "wont_fix",
             "false_positive"}

\* field defaults of a record that create() fills in
DefaultFinding ==
    [fingerprint |-> "", scan_id |-> 0, first_seen_scan_id |-> 0,
     first_seen_date |-> 0, last_seen_date |-> 0, occurrence_count |-> 1,
     status |-> "new", severity |-> "", category |-> "", finding_type |-> "",
     title |-> "", description |-> "", priority |-> "", effort |-> "",
     details_json |-> NoDetails, resolved_date |-> 0]

\* a dict with no keys
EmptyDict == [k \in {} |-> ""]

\* ORM write and create: the given values replace the fields they name
WriteVals(record, values) ==
    [f \in DOMAIN record |-> IF f \in DOMAIN values THEN values[f] ELSE record[f]]

\* a or b of Python on strings: the first one that is not empty
OrElse(a, b) == IF a # "" THEN a ELSE b

RECURSIVE Join(_)
Join(parts) ==
    IF parts = <<>> THEN ""
    ELSE IF Len(parts) = 1 THEN Head(parts)
    ELSE Head(parts) \o "|" \o Join(Tail(parts))

\* _generate_fingerprint.  The truncated SHA-256 digest is represented by
\* the string it is taken of (the digest is assumed collision-free).
GenerateFingerprint(severity, category, finding_type, details, title) ==
    LET file_path == OrElse(details.file, details.relative_path)
        model_name == OrElse(details.model, details.model_name)
        xml_id == OrElse(details.xml_id, details.view_xml_id)
        key == IF severity = "recommendation" /\ title # ""
               THEN <<title>>
               ELSE (IF file_path # "" THEN <<file_path>> ELSE <<>>)
                    \o (IF model_name # "" THEN <<model_name>> ELSE <<>>)
                    \o (IF xml_id # "" THEN <<xml_id>> ELSE <<>>)
    IN Join(<<severity, category, finding_type>> \o key)

FingerprintOf(vals) ==
    GenerateFingerprint(vals.severity, vals.category, vals.finding_type,
                        vals.details_json, vals.title)

\* search([('fingerprint', '=', fp)], limit=1): the id found, 0 for none
SearchFingerprint(store, fp) ==
    LET hits == {i \in 1..Len(store) : store[i].fingerprint = fp}
    IN IF hits = {} THEN 0 ELSE CHOOSE i \in hits : \A j \in hits : i <= j

\* a store without the unique(fingerprint) constraint
NoFingerprintConstraint(store, fp) == TRUE

\* the unique(fingerprint) constraint: may a record with fp be inserted
FingerprintUnique(store, fp) ==
    \A i \in 1..Len(store) : store[i].fingerprint # fp

\* update_vals that stamp the first-seen fields again
UpdateValsFirstSeen(existing, scan_id, vals, time) ==
    [scan_id |-> scan_id,
     first_seen_scan_id |-> scan_id,
     first_seen_date |-> time,
     last_seen_date |-> time,
     occurrence_count |-> existing.occurrence_count + 1]

\* update_vals that refresh severity and description whatever the status
UpdateValsAnyStatus(existing, scan_id, vals, time) ==
    (IF vals.severity # "" THEN [severity |-> vals.severity] ELSE EmptyDict)
    @@ (IF vals.description # ""
        THEN [description |-> vals.description] ELSE EmptyDict)
    @@ [scan_id |-> scan_id,
        last_seen_date |-> time,
        occurrence_count |-> existing.occurrence_count + 1]

\* update_vals of find_or_create for a record that exists; `existing` is
\* the record as the call read it
UpdateVals(existing, scan_id, vals, time) ==
    (IF existing.status = "new" /\ vals.severity # ""
     THEN [severity |-> vals.severity] ELSE EmptyDict)
    @@ (IF existing.status = "new" /\ vals.description # ""
        THEN [description |-> vals.description] ELSE EmptyDict)
    @@ [scan_id |-> scan_id,
        last_seen_date |-> time,
        occurrence_count |-> existing.occurrence_count + 1]

\* vals of a create that leaves first_seen_scan_id and first_seen_date out
CreateValsNoFirstSeen(scan_id, vals, fp, time) ==
    [scan_id |-> scan_id,
     last_seen_date |-> time,
     occurrence_count |-> 1,
     status |-> "new"]
    @@ [fingerprint |-> fp]
    @@ vals

\* vals of find_or_create for a fingerprint that is absent
CreateVals(scan_id, vals, fp, time) ==
    [scan_id |-> scan_id,
     first_seen_scan_id |-> scan_id,
     first_seen_date |-> time,
     last_seen_date |-> time,
     occurrence_count |-> 1,
     status |-> "new"]
    @@ [fingerprint |-> fp]
    @@ vals

\* a find_or_create that leaves scan_id of an existing record alone
FindOrCreateKeepScan(store, scan_id, vals, time) ==
    LET fp == FingerprintOf(vals)
        existing == SearchFingerprint(store, fp)
    IN IF existing # 0
       THEN [store EXCEPT ![existing] =
                WriteVals(@, [last_seen_date |-> time,
                              occurrence_count |-> @.occurrence_count + 1])]
       ELSE Append(store, WriteVals(DefaultFinding,
                                    CreateVals(scan_id, vals, fp, time)))

\* find_or_create as one transaction: the store after the call
FindOrCreate(store, scan_id, vals, time) ==
    LET fp == FingerprintOf(vals)
        existing == SearchFingerprint(store, fp)
    IN IF existing # 0
       THEN [store EXCEPT ![existing] =
                WriteVals(@, UpdateVals(@, scan_id, vals, time))]
       ELSE Append(store, WriteVals(DefaultFinding,
                                    CreateVals(scan_id, vals, fp, time)))

\* the candidates _create_findings passes to find_or_create, in call order
CriticalVals(issue) ==
    [severity |-> "critical", category |-> issue.category,
     finding_type |-> issue.type, details_json |-> issue.details,
     title |-> "", description |-> "", priority |-> "", effort |-> ""]

WarningVals(issue) == [CriticalVals(issue) EXCEPT !.severity = "warning"]

RecommendationVals(rec) ==
    [severity |-> "recommendation", category |-> rec.category,
     finding_type |-> rec.type, details_json |-> NoDetails,
     title |-> rec.title, description |-> rec.description,
     priority |-> rec.priority, effort |-> rec.effort]

Candidates(report) ==
    [i \in 1..Len(report.critical_issues) |->
        CriticalVals(report.critical_issues[i])]
    \o [i \in 1..Len(report.warnings) |-> WarningVals(report.warnings[i])]
    \o [i \in 1..Len(report.recommendations) |->
            RecommendationVals(report.recommendations[i])]

----------------------------------------------------------------------------
(* insights.scan: the scan run                                             *)

\* finding_ids of a scan: One2many over scan_id of insights.finding
FindingIdsOf(store, s) == {i \in 1..Len(store) : store[i].scan_id = s}

\* the insights.scan.settings singleton
Settings == [default_scan_path |-> "/addons", include_registry |-> FALSE]

\* the directories that exist on disk
ExistingPaths == {"/addons"}

\* field values given to create(); the form leaves use_default_settings and
\* include_registry at their defaults unless the user unticks them
FormDefault == [base_path |-> "", use_default_settings |-> TRUE,
                include_registry |-> TRUE]
FormNoPath  == [base_path |-> "", use_default_settings |-> FALSE,
                include_registry |-> FALSE]
FormMissing == [base_path |-> "/missing", use_default_settings |-> FALSE,
                include_registry |-> TRUE]
QuickScanVals == [base_path |-> "/addons", use_default_settings |-> TRUE,
                  include_registry |-> TRUE]

ScanForms == {FormNoPath, FormMissing}

NewScan(vals, time) ==
    [state |-> "draft", scan_date |-> time, error_message |-> "",
     base_path |-> vals.base_path,
     use_default_settings |-> vals.use_default_settings,
     include_registry |-> vals.include_registry,
     health_score |-> 0, health_status |-> "",
     critical_count |-> 0, warning_count |-> 0,
     findings_new |-> 0, findings_recurring |-> 0,
     report_json |-> <<>>, registry_errors |-> 0, relationships |-> 0]

\* a guard that lets a completed run start again
CanRunCompleted(state) == state \in {"draft", "failed", "completed"}

\* the guard of action_run_scan
CanRun(state) == state \in {"draft", "failed"}

\* configuration of a run: the record's own values, overridden by the
\* default settings when use_default_settings is set
ScanPath(scan) ==
    IF scan.use_default_settings /\ Settings.default_scan_path # ""
       /\ scan.base_path = ""
    THEN Settings.default_scan_path
    ELSE scan.base_path

IncludeRegistry(scan) ==
    IF scan.use_default_settings THEN Settings.include_registry
    ELSE scan.include_registry

\* EcosystemAnalyzer.analyze on a root path: rglob over a directory that
\* does not exist yields no file, so every scanner and analyzer comes back
\* empty
Analyze(scan_path, t) ==
    GenerateReport(IF scan_path \in ExistingPaths THEN t ELSE EmptyTree)

\* RegistryScanner.scan: an exception of a query is caught and recorded in
\* the errors list of the scan result
RegistryErrors(include_registry, registry_ok) ==
    IF include_registry /\ ~registry_ok THEN 1 ELSE 0

IdleProc == [pc |-> "idle", queue |-> <<>>, new_count |-> 0,
             recurring_count |-> 0, existing |-> 0, read |-> DefaultFinding,
             time |-> 0, store_before |-> <<>>]

NoResult == [found |-> FALSE, score |-> 0, status |-> "", date |-> 0,
             critical |-> 0, warnings |-> 0]

NoVals == RecommendationVals(Recommendation("", "", "", "", "", ""))

NoRet == [op |-> "", scan |-> 0, error |-> "", id |-> 0, existed |-> FALSE,
          before |-> DefaultFinding, vals |-> NoVals, time |-> 0,
          store_before |-> <<>>, result |-> NoResult]

NoRun == [scan |-> 0, state |-> "", report |-> <<>>, store |-> <<>>]

Idle == \A s \in ScanIds : proc[s].pc = "idle"

\* fingerprint and occurrence_count of every record, by id
RECURSIVE StoreSummary(_)
StoreSummary(store) ==
    IF store = <<>> THEN <<>>
    ELSE <<[fingerprint |-> Head(store).fingerprint,
            occurrence_count |-> Head(store).occurrence_count]>>
         \o StoreSummary(Tail(store))

AllFingerprints ==
    UNION {{FingerprintOf(c[i]) : i \in 1..Len(c)} :
           c \in {Candidates(GenerateReport(t)) : t \in FixedTrees}}

Init ==
    /\ scans = <<>>
    /\ findings = <<>>
    /\ proc = [s \in ScanIds |-> IdleProc]
    /\ now = 0
    /\ tree = TreeA
    /\ ret = NoRet
    /\ calls = [fp \in AllFingerprints |-> 0]
    /\ lastRun = NoRun
    /\ prevRun = NoRun
    /\ source = <<>>
    /\ results = <<>>

\* create() of a scan from the form
CreateScan(vals) ==
    /\ Len(scans) < MaxScans
    /\ scans' = Append(scans, NewScan(vals, now))
    /\ ret' = [NoRet EXCEPT !.op = "create", !.scan = Len(scans) + 1]
    /\ UNCHANGED <<findings, proc, now, tree, calls, lastRun, prevRun, source, results>>

\* action_run_scan up to the write of state 'running'
RunScanStart(s) ==
    /\ s \in 1..Len(scans)
    /\ proc[s].pc = "idle"
    /\ CanRun(scans[s].state)
    /\ now < MaxTime
    /\ now' = now + 1
    /\ scans' = [scans EXCEPT ![s].state = "running", ![s].error_message = ""]
    /\ proc' = [proc EXCEPT ![s] = [IdleProc EXCEPT !.pc = "analyze",
                                                    !.store_before = findings]]
    /\ ret' = [NoRet EXCEPT !.op = "run_started", !.scan = s]
    /\ UNCHANGED <<findings, tree, calls, lastRun, prevRun, source, results>>

\* action_run_scan on a record that is neither draft nor failed
RunScanRejected(s) ==
    /\ s \in 1..Len(scans)
    /\ ~CanRun(scans[s].state)
    /\ ret' = [NoRet EXCEPT !.op = "action_run_scan", !.scan = s,
                            !.error = "Can only run scans in draft or failed state"]
    /\ UNCHANGED <<scans, findings, proc, now, tree, calls, lastRun, prevRun, source, results>>

\* action_run_quick_scan: create, then action_run_scan of the new record
QuickScanStart ==
    /\ QuickScanVals.base_path \in ExistingPaths
    /\ Len(scans) < MaxScans
    /\ now < MaxTime
    /\ now' = now + 1
    /\ LET s == Len(scans) + 1
       IN /\ scans' = Append(scans, [NewScan(QuickScanVals, now')
                                        EXCEPT !.state = "running"])
          /\ proc' = [proc EXCEPT ![s] = [IdleProc EXCEPT !.pc = "analyze",
                                                          !.store_before = findings]]
          /\ ret' = [NoRet EXCEPT !.op = "run_started", !.scan = s]
    /\ UNCHANGED <<findings, tree, calls, lastRun, prevRun, source, results>>

\* the except branch of action_run_scan
RunFailed(s, scanTable, message) ==
    /\ scans' = [scanTable EXCEPT ![s].state = "failed",
                                  ![s].error_message = message]
    /\ proc' = [proc EXCEPT ![s] = IdleProc]
    /\ ret' = [NoRet EXCEPT !.op = "action_run_scan", !.scan = s,
                            !.error = "Scan failed: " \o message,
                            !.store_before = proc[s].store_before]
    /\ UNCHANGED <<lastRun, prevRun, source, results>>

\* configuration, analyzer.analyze and the first write of _store_results
\* t is what the analyzers find in the tree on disk at that moment
AnalyzeAndStore(s, t, registry_ok) ==
    /\ s \in 1..Len(scans)
    /\ proc[s].pc = "analyze"
    /\ ScanPath(scans[s]) # ""
    /\ tree' = t
    /\ LET report == Analyze(ScanPath(scans[s]), t)
       IN /\ scans' = [scans EXCEPT
                ![s].health_score = report.health_score,
                ![s].health_status = report.health_status,
                ![s].critical_count = report.critical_count,
                ![s].warning_count = report.warning_count,
                ![s].report_json = <<report>>,
                ![s].registry_errors =
                    RegistryErrors(IncludeRegistry(scans[s]), registry_ok)]
          /\ proc' = [proc EXCEPT ![s].pc = "findings",
                                  ![s].queue = Candidates(report)]
    /\ ret' = [NoRet EXCEPT !.op = "analyzed", !.scan = s]
    /\ UNCHANGED <<findings, now, calls, lastRun, prevRun, source, results>>

\* no scan path configured: UserError inside the try block
NoScanPath(s) ==
    /\ s \in 1..Len(scans)
    /\ proc[s].pc = "analyze"
    /\ ScanPath(scans[s]) = ""
    /\ RunFailed(s, scans, "No scan path configured")
    /\ UNCHANGED <<findings, now, tree, calls>>

\* an exception out of analyzer.analyze or out of the write of the results
AnalyzeRaised(s) ==
    /\ s \in 1..Len(scans)
    /\ proc[s].pc = "analyze"
    /\ ScanPath(scans[s]) # ""
    /\ RunFailed(s, scans, "analysis raised")
    /\ UNCHANGED <<findings, now, tree, calls>>

\* one iteration of the loops of _create_findings, find_or_create being
\* one transaction
CreateFinding(s) ==
    /\ s \in 1..Len(scans)
    /\ proc[s].pc = "findings"
    /\ proc[s].queue # <<>>
    /\ LET vals == Head(proc[s].queue)
           fp == FingerprintOf(vals)
           existing == SearchFingerprint(findings, fp)
           id == IF existing # 0 THEN existing ELSE Len(findings) + 1
       IN /\ findings' = FindOrCreate(findings, s, vals, now)
          /\ proc' = [proc EXCEPT
                ![s].queue = Tail(@),
                ![s].new_count =
                    IF findings'[id].occurrence_count = 1 THEN @ + 1 ELSE @,
                ![s].recurring_count =
                    IF findings'[id].occurrence_count = 1 THEN @ ELSE @ + 1]
          /\ ret' = [NoRet EXCEPT !.op = "find_or_create", !.scan = s, !.id = id,
                                  !.existed = (existing # 0),
                                  !.before = IF existing # 0 THEN findings[existing]
                                             ELSE DefaultFinding,
                                  !.vals = vals, !.time = now,
                                  !.store_before = findings]
          /\ calls' = [calls EXCEPT ![fp] = @ + 1]
    /\ UNCHANGED <<scans, now, tree, lastRun, prevRun, source, results>>

\* an exception out of a find_or_create call
CreateFindingRaised(s) ==
    /\ s \in 1..Len(scans)
    /\ proc[s].pc = "findings"
    /\ proc[s].queue # <<>>
    /\ RunFailed(s, scans, "find_or_create raised")
    /\ UNCHANGED <<findings, now, tree, calls>>

\* counts that take every candidate for a new finding
WithCountsAllNew(s) ==
    [scans EXCEPT ![s].findings_new = proc[s].new_count + proc[s].recurring_count,
                  ![s].findings_recurring = 0]

\* the counts written at the end of _create_findings
WithCounts(s) ==
    [scans EXCEPT ![s].findings_new = proc[s].new_count,
                  ![s].findings_recurring = proc[s].recurring_count]

\* end of _create_findings, _create_relationships, write of 'completed'
Finish(s) ==
    /\ s \in 1..Len(scans)
    /\ proc[s].pc = "findings"
    /\ proc[s].queue = <<>>
    /\ scans' = [WithCounts(s) EXCEPT
            ![s].relationships = scans[s].report_json[1].traces,
            ![s].state = "completed"]
    /\ proc' = [proc EXCEPT ![s] = IdleProc]
    /\ ret' = [NoRet EXCEPT !.op = "action_run_scan", !.scan = s]
    /\ UNCHANGED <<findings, now, tree, calls>>

FinishRun(s) == Finish(s) /\ UNCHANGED <<lastRun, prevRun, source, results>>

\* an exception out of _create_relationships, after the old relationship
\* records were unlinked
RelationshipsRaised(s) ==
    /\ s \in 1..Len(scans)
    /\ proc[s].pc = "findings"
    /\ proc[s].queue = <<>>
    /\ RunFailed(s, [WithCounts(s) EXCEPT ![s].relationships = 0],
                 "relationship creation raised")
    /\ UNCHANGED <<findings, now, tree, calls>>

----------------------------------------------------------------------------
(* Triage of findings by the user                                          *)

Triaged == {i \in 1..Len(findings) : findings[i].status # "new"}

MayTriage(i) ==
    /\ i \in 1..Len(findings)
    /\ (i \in Triaged \/ Cardinality(Triaged) < MaxTriaged)

SetStatus(i, status, values) ==
    /\ MayTriage(i)
    /\ findings[i].status # status
    /\ findings' = [findings EXCEPT ![i] = WriteVals(@, values)]
    /\ ret' = [NoRet EXCEPT !.op = "triage", !.id = i]
    /\ UNCHANGED <<scans, proc, now, tree, calls, lastRun, prevRun, source, results>>

ActionMarkResolved(i) ==
    SetStatus(i, "resolved", [status |-> "resolved", resolved_date |-> now])

ActionAcknowledge(i) ==
    SetStatus(i, "acknowledged", [status |-> "acknowledged"])

ActionWontFix(i) ==
    SetStatus(i, "wont_fix", [status |-> "wont_fix"])

ActionFalsePositive(i) ==
    SetStatus(i, "false_positive", [status |-> "false_positive"])

\* the status field is not readonly: the form writes 'in_progress'
WriteInProgress(i) ==
    SetStatus(i, "in_progress", [status |-> "in_progress"])

----------------------------------------------------------------------------
(* Reading the last known good result                                      *)

\* the same search without the domain on state
SearchLatestAnyState(table) == Len(table)

\* search([('state', '=', 'completed')], limit=1) under
\* _order = 'create_date desc': ids grow with create_date
SearchLatestCompleted(table) ==
    LET hits == {s \in 1..Len(table) : table[s].state = "completed"}
    IN IF hits = {} THEN 0 ELSE CHOOSE s \in hits : \A r \in hits : r <= s

LatestHealthScore(table) ==
    LET latest == SearchLatestCompleted(table)
    IN IF latest = 0 THEN NoResult
       ELSE [found |-> TRUE,
             score |-> table[latest].health_score,
             status |-> table[latest].health_status,
             date |-> table[latest].scan_date,
             critical |-> table[latest].critical_count,
             warnings |-> table[latest].warning_count]

GetLatestHealthScore ==
    /\ ret' = [NoRet EXCEPT !.op = "get_latest_health_score",
                            !.result = LatestHealthScore(scans)]
    /\ ret' # ret
    /\ UNCHANGED <<scans, findings, proc, now, tree, calls, lastRun, prevRun, source, results>>

----------------------------------------------------------------------------
(* Requests served one at a time: no call starts while a run is in flight  *)

Next ==
    \/ \E vals \in ScanForms : CreateScan(vals)
    \/ Idle /\ \E s \in ScanIds : RunScanStart(s)
    \/ Idle /\ \E s \in ScanIds : RunScanRejected(s)
    \/ Idle /\ QuickScanStart
    \/ \E s \in ScanIds, t \in Trees, registry_ok \in BOOLEAN :
            AnalyzeAndStore(s, t, registry_ok)
    \/ \E s \in ScanIds : NoScanPath(s)
    \/ \E s \in ScanIds : AnalyzeRaised(s)
    \/ \E s \in ScanIds : CreateFinding(s)
    \/ \E s \in ScanIds : CreateFindingRaised(s)
    \/ \E s \in ScanIds : FinishRun(s)
    \/ \E s \in ScanIds : RelationshipsRaised(s)
    \/ Idle /\ \E i \in 1..Len(findings) : ActionMarkResolved(i)
    \/ Idle /\ \E i \in 1..Len(findings) : ActionAcknowledge(i)
    \/ Idle /\ \E i \in 1..Len(findings) : ActionWontFix(i)
    \/ Idle /\ \E i \in 1..Len(findings) : ActionFalsePositive(i)
    \/ Idle /\ \E i \in 1..Len(findings) : WriteInProgress(i)
    \/ Idle /\ GetLatestHealthScore

Spec == Init /\ [][Next]_vars

----------------------------------------------------------------------------
(* Runs of several workers at once: a run starts whatever the other runs   *)
(* do, and the search and the write of find_or_create are two steps        *)

\* find_or_create up to update_vals: the search and the read of the record
SearchFinding(s) ==
    /\ s \in 1..Len(scans)
    /\ proc[s].pc = "findings"
    /\ proc[s].queue # <<>>
    /\ LET existing == SearchFingerprint(findings, FingerprintOf(Head(proc[s].queue)))
       IN proc' = [proc EXCEPT
              ![s].pc = "write",
              ![s].existing = existing,
              ![s].read = IF existing # 0 THEN findings[existing] ELSE DefaultFinding,
              ![s].time = now]
    /\ ret' = [NoRet EXCEPT !.op = "searched", !.scan = s]
    /\ UNCHANGED <<scans, findings, now, tree, calls, lastRun, prevRun, source, results>>

\* the counters of _create_findings after a find_or_create that returned id
Counted(s, store, id) ==
    [proc EXCEPT
        ![s].pc = "findings",
        ![s].queue = Tail(@),
        ![s].existing = 0,
        ![s].read = DefaultFinding,
        ![s].time = 0,
        ![s].new_count = IF store[id].occurrence_count = 1 THEN @ + 1 ELSE @,
        ![s].recurring_count = IF store[id].occurrence_count = 1 THEN @ ELSE @ + 1]

\* existing.write(update_vals)
WriteFinding(s) ==
    /\ s \in 1..Len(scans)
    /\ proc[s].pc = "write"
    /\ proc[s].existing # 0
    /\ LET vals == Head(proc[s].queue)
           id == proc[s].existing
       IN /\ findings' = [findings EXCEPT ![id] =
                WriteVals(@, UpdateVals(proc[s].read, s, vals, proc[s].time))]
          /\ proc' = Counted(s, findings', id)
          /\ ret' = [NoRet EXCEPT !.op = "find_or_create", !.scan = s, !.id = id,
                                  !.existed = TRUE, !.before = proc[s].read,
                                  !.vals = vals, !.time = proc[s].time]
          /\ calls' = [calls EXCEPT ![FingerprintOf(vals)] = @ + 1]
    /\ UNCHANGED <<scans, now, tree, lastRun, prevRun, source, results>>

\* self.create(vals) while the fingerprint is still absent
InsertFinding(s) ==
    /\ s \in 1..Len(scans)
    /\ proc[s].pc = "write"
    /\ proc[s].existing = 0
    /\ LET vals == Head(proc[s].queue)
           fp == FingerprintOf(vals)
           id == Len(findings) + 1
       IN /\ FingerprintUnique(findings, fp)
          /\ findings' = Append(findings,
                WriteVals(DefaultFinding, CreateVals(s, vals, fp, proc[s].time)))
          /\ proc' = Counted(s, findings', id)
          /\ ret' = [NoRet EXCEPT !.op = "find_or_create", !.scan = s, !.id = id,
                                  !.vals = vals, !.time = proc[s].time]
          /\ calls' = [calls EXCEPT ![fp] = @ + 1]
    /\ UNCHANGED <<scans, now, tree, lastRun, prevRun, source, results>>

\* self.create(vals) after another run inserted the fingerprint: the
\* fingerprint_unique constraint raises
InsertRejected(s) ==
    /\ s \in 1..Len(scans)
    /\ proc[s].pc = "write"
    /\ proc[s].existing = 0
    /\ ~FingerprintUnique(findings, FingerprintOf(Head(proc[s].queue)))
    /\ RunFailed(s, scans, "fingerprint_unique")
    /\ UNCHANGED <<findings, now, tree, calls>>

NextConcurrent ==
    \/ CreateScan(FormDefault)
    \/ QuickScanStart
    \/ \E s \in ScanIds : RunScanStart(s)
    \/ \E s \in ScanIds, t \in Trees : AnalyzeAndStore(s, t, TRUE)
    \/ \E s \in ScanIds : SearchFinding(s)
    \/ \E s \in ScanIds : WriteFinding(s)
    \/ \E s \in ScanIds : InsertFinding(s)
    \/ \E s \in ScanIds : InsertRejected(s)
    \/ \E s \in ScanIds : FinishRun(s)
    \/ \E i \in 1..Len(findings) : ActionAcknowledge(i)

SpecConcurrent == Init /\ [][NextConcurrent]_vars

----------------------------------------------------------------------------
(* The pipeline run again and again on one unchanged source tree           *)

InitFixedTree ==
    /\ scans = <<>>
    /\ findings = <<>>
    /\ proc = [s \in ScanIds |-> IdleProc]
    /\ now = 0
    /\ tree \in FixedTrees
    /\ ret = NoRet
    /\ calls = [fp \in AllFingerprints |-> 0]
    /\ lastRun = NoRun
    /\ prevRun = NoRun
    /\ source = <<>>
    /\ results = <<>>

\* the end of a run, the state of the store being recorded
FinishRecorded(s) ==
    /\ Finish(s)
    /\ lastRun' = [scan |-> s, state |-> "completed",
                   report |-> scans[s].report_json,
                   store |-> StoreSummary(findings)]
    /\ prevRun' = lastRun
    /\ UNCHANGED <<source, results>>

NextFixedTree ==
    \/ Idle /\ QuickScanStart
    \/ \E s \in ScanIds : AnalyzeAndStore(s, tree, TRUE)
    \/ \E s \in ScanIds : CreateFinding(s)
    \/ \E s \in ScanIds : FinishRecorded(s)
    \/ Idle /\ \E i \in 1..Len(findings) : ActionMarkResolved(i)
    \/ Idle /\ \E i \in 1..Len(findings) : ActionAcknowledge(i)

SpecFixedTree == InitFixedTree /\ [][NextFixedTree]_vars

----------------------------------------------------------------------------
(* The report of one tree out of many, stored by a run                     *)

ReportFingerprints ==
    UNION {{FingerprintOf(c[i]) : i \in 1..Len(c)} :
           c \in {Candidates(GenerateReport(t)) : t \in ReportTrees}}

InitReport ==
    /\ scans = <<>>
    /\ findings = <<>>
    /\ proc = [s \in ScanIds |-> IdleProc]
    /\ now = 0
    /\ tree \in ReportTrees
    /\ ret = NoRet
    /\ calls = [fp \in ReportFingerprints |-> 0]
    /\ lastRun = NoRun
    /\ prevRun = NoRun
    /\ source = <<>>
    /\ results = <<>>

NextReport ==
    \/ Idle /\ QuickScanStart
    \/ \E s \in ScanIds : AnalyzeAndStore(s, tree, TRUE)
    \/ \E s \in ScanIds : CreateFinding(s)
    \/ \E s \in ScanIds : FinishRun(s)

SpecReport == InitReport /\ [][NextReport]_vars

----------------------------------------------------------------------------
(* The report of trees whose findings are of every declared severity       *)

\* findings that the analyzers declare info
SimilarBelowThreshold == Item("similar_models", "info", NoDetails)

UnmatchedRename ==
    Item("renamed_components", "info", [NoDetails EXCEPT !.file = "r.py"])

CrossModuleMenu ==
    Item("orphaned_menus", "info", [NoDetails EXCEPT !.file = "menu.xml"])

CommentedInfoBlock ==
    Item("python", "info", [NoDetails EXCEPT !.relative_path = "c.py", !.line = 9])

\* a rename whose original exists
MatchedRename ==
    Item("renamed_components", "warning", [NoDetails EXCEPT !.file = "q.py"])

Pick(present, item) == IF present THEN <<item>> ELSE <<>>

SeverityTrees ==
    {[duplicate |-> Pick(de, DuplicateModel) \o Pick(sb, SimilarBelowThreshold)
                    \o Pick(ur, UnmatchedRename) \o Pick(mr, MatchedRename),
      orphan |-> Pick(dr, DanglingModelRef) \o Pick(om, OrphanedModel)
                 \o Pick(cm, CrossModuleMenu),
      commented |-> Pick(ci, CommentedInfoBlock) \o Pick(ci, CommentedBlock),
      external |-> Pick(hw, HardcodedWarning(1)) \o Pick(hw, HardcodedPath(2)),
      python_errors |-> 0, xml_errors |-> 0, traces |-> 0] :
        de \in BOOLEAN, sb \in BOOLEAN, ur \in BOOLEAN, mr \in BOOLEAN,
        dr \in BOOLEAN, om \in BOOLEAN, cm \in BOOLEAN, ci \in BOOLEAN,
        hw \in BOOLEAN}

SeverityFingerprints ==
    UNION {{FingerprintOf(c[i]) : i \in 1..Len(c)} :
           c \in {Candidates(GenerateReport(t)) : t \in SeverityTrees}}

InitSeverity ==
    /\ scans = <<>>
    /\ findings = <<>>
    /\ proc = [s \in ScanIds |-> IdleProc]
    /\ now = 0
    /\ tree \in SeverityTrees
    /\ ret = NoRet
    /\ calls = [fp \in SeverityFingerprints |-> 0]
    /\ lastRun = NoRun
    /\ prevRun = NoRun
    /\ source = <<>>
    /\ results = <<>>

SpecSeverity == InitSeverity /\ [][NextReport]_vars

----------------------------------------------------------------------------
(* The static scanners and the file-walking analyzers on a source tree     *)

\* a file under the root: its first path segment and its name
File(module, name) == [module |-> module, name |-> name]

Modules == {"ai_sam", "ai_sam_base"}

FileNames == {"models.py", "broken.py", "__manifest__.py", "views.xml",
              "widget.js", "style.css"}

Files == {File(m, n) : m \in Modules, n \in FileNames}

Suffix(name) ==
    CASE name \in {"models.py", "broken.py", "__manifest__.py"} -> ".py"
      [] name = "views.xml" -> ".xml"
      [] name = "widget.js" -> ".js"
      [] OTHER -> ".css"

\* the source trees: up to MaxFiles files, in the order rglob yields them
RECURSIVE DisksOf(_)
DisksOf(n) ==
    IF n = 0 THEN {<<>>}
    ELSE LET shorter == DisksOf(n - 1)
         IN shorter \cup
            {Append(d, f) : d \in {x \in shorter : Len(x) = n - 1}, f \in Files}

Disks == {d \in DisksOf(MaxFiles) :
            \A i, j \in 1..Len(d) : d[i] = d[j] => i = j}

\* module_filter of the scan: [] stands for no filter
ModuleFilters == {<<>>, <<"ai_sam">>}

\* base_path.rglob('*' + suffix) for the suffixes given
Rglob(disk, suffixes) ==
    SelectSeq(disk, LAMBDA f : Suffix(f.name) \in suffixes)

\* the module filter as every walker applies it: exact match of the first
\* path segment
InFilter(module_filter, file) ==
    \/ module_filter = <<>>
    \/ \E i \in 1..Len(module_filter) : module_filter[i] = file.module

\* the walks of EcosystemAnalyzer.analyze, in call order, and their files
Walks == <<"python", "xml", "manifests", "assets", "commented", "integration",
           "external">>

WalkFiles(disk, walk) ==
    CASE walk = "python" -> Rglob(disk, {".py"})
      [] walk = "xml" -> Rglob(disk, {".xml"})
      [] walk = "manifests" -> SelectSeq(disk, LAMBDA f : f.name = "__manifest__.py")
      [] walk = "assets" -> Rglob(disk, {".js", ".css"})
      [] walk = "commented" ->
            Rglob(disk, {".py"}) \o Rglob(disk, {".js"}) \o Rglob(disk, {".xml"})
      [] walk = "integration" ->
            Rglob(disk, {".py"}) \o Rglob(disk, {".js"}) \o Rglob(disk, {".xml"})
            \o Rglob(disk, {".css"})
      [] OTHER ->
            Rglob(disk, {".py"}) \o Rglob(disk, {".xml"}) \o Rglob(disk, {".js"})

\* the first walk from position k on that finds a file, 0 after the last
RECURSIVE WalkFrom(_, _)
WalkFrom(disk, k) ==
    IF k > Len(Walks) THEN 0
    ELSE IF WalkFiles(disk, Walks[k]) # <<>> THEN k
    ELSE WalkFrom(disk, k + 1)

EmptyScanResults ==
    [models |-> <<>>, functions |-> <<>>, imports |-> <<>>, errors |-> <<>>,
     files_scanned |-> 0, records |-> <<>>]

\* scan_results and the walk in flight
ScanState(disk, k, scan_results) ==
    [walk |-> k,
     todo |-> IF k = 0 THEN <<>> ELSE WalkFiles(disk, Walks[k]),
     scan_results |-> scan_results]

\* what is left of the walk after its first file, or the next walk
Advance(scan_results) ==
    IF Tail(results.todo) # <<>>
    THEN [results EXCEPT !.todo = Tail(@), !.scan_results = scan_results]
    ELSE ScanState(source.disk, WalkFrom(source.disk, results.walk + 1),
                   scan_results)

Walking(walk) ==
    /\ results.walk # 0
    /\ Walks[results.walk] = walk
    /\ results.todo # <<>>

\* a record a scanner or analyzer keeps for a file
Record(kind, file) == [kind |-> kind, file |-> file]

\* a _scan_file that starts its lists again when a file does not parse
ScanFileDiscarding(scan_results, file) ==
    IF file.name = "broken.py"
    THEN [EmptyScanResults EXCEPT
            !.errors = Append(scan_results.errors, Record("Syntax error", file)),
            !.records = scan_results.records]
    ELSE [scan_results EXCEPT
            !.models = IF file.name = "models.py"
                       THEN Append(@, Record("model", file)) ELSE @,
            !.functions = IF file.name = "models.py"
                          THEN Append(@, Record("function", file)) ELSE @,
            !.imports = IF file.name = "models.py"
                        THEN Append(@, Record("import", file)) ELSE @,
            !.files_scanned = @ + 1]

\* PythonScanner._scan_file: models.py declares a model, a function and an
\* import; broken.py does not parse
ScanFile(scan_results, file) ==
    IF file.name = "broken.py"
    THEN [scan_results EXCEPT
            !.errors = Append(@, Record("Syntax error", file))]
    ELSE [scan_results EXCEPT
            !.models = IF file.name = "models.py"
                       THEN Append(@, Record("model", file)) ELSE @,
            !.functions = IF file.name = "models.py"
                          THEN Append(@, Record("function", file)) ELSE @,
            !.imports = IF file.name = "models.py"
                        THEN Append(@, Record("import", file)) ELSE @,
            !.files_scanned = @ + 1]

\* a walker that keeps one record of the given kind for a file it scans
Keep(kind, filtered) ==
    LET file == Head(results.todo)
        r == results.scan_results
    IN /\ results' = Advance(
              IF filtered /\ ~InFilter(source.module_filter, file) THEN r
              ELSE [r EXCEPT !.records = Append(@, Record(kind, file))])
       /\ UNCHANGED <<scans, findings, proc, now, tree, ret, calls, lastRun,
                      prevRun, source>>

\* one iteration of the loop of PythonScanner.scan
PythonScanFile ==
    /\ Walking("python")
    /\ LET file == Head(results.todo)
       IN results' = Advance(
              IF InFilter(source.module_filter, file)
              THEN ScanFile(results.scan_results, file)
              ELSE results.scan_results)
    /\ UNCHANGED <<scans, findings, proc, now, tree, ret, calls, lastRun,
                   prevRun, source>>

\* one iteration of the loop of XMLScanner.scan
XMLScanFile == Walking("xml") /\ Keep("views", TRUE)

\* one iteration of the loop of AssetScanner._scan_manifests
ScanManifest == Walking("manifests") /\ Keep("asset_bundles", FALSE)

ScanJsFile ==
    /\ Walking("assets")
    /\ Suffix(Head(results.todo).name) = ".js"
    /\ Keep("js_files", TRUE)

ScanCssFile ==
    /\ Walking("assets")
    /\ Suffix(Head(results.todo).name) = ".css"
    /\ Keep("css_files", TRUE)

\* one file of CommentedCodeAnalyzer.analyze
CommentedCodeFile == Walking("commented") /\ Keep("commented_code", TRUE)

\* one file of IntegrationReferenceAnalyzer.analyze
IntegrationFile == Walking("integration") /\ Keep("integration", TRUE)

\* one file of ExternalPathAnalyzer.analyze
ExternalPathFile == Walking("external") /\ Keep("external_path", TRUE)

InitScanners ==
    /\ scans = <<>>
    /\ findings = <<>>
    /\ proc = [s \in ScanIds |-> IdleProc]
    /\ now = 0
    /\ tree = EmptyTree
    /\ ret = NoRet
    /\ calls = [fp \in AllFingerprints |-> 0]
    /\ lastRun = NoRun
    /\ prevRun = NoRun
    /\ \E disk \in Disks, module_filter \in ModuleFilters :
          /\ source = [disk |-> disk, module_filter |-> module_filter]
          /\ results = ScanState(disk, WalkFrom(disk, 1), EmptyScanResults)

NextScanners ==
    \/ PythonScanFile
    \/ XMLScanFile
    \/ ScanManifest
    \/ ScanJsFile
    \/ ScanCssFile
    \/ CommentedCodeFile
    \/ IntegrationFile
    \/ ExternalPathFile

SpecScanners == InitScanners /\ [][NextScanners]_vars

----------------------------------------------------------------------------
(* DuplicateAnalyzer._find_similar_models on the models of the IR          *)

FieldNames == {"a", "b", "c", "d"}

\* the field sets of the models: one below the size the detector looks at
FieldSets == {{"a", "b"}, {"a", "b", "c"}, {"a", "b", "d"}, {"a", "b", "c", "d"}}

ModelNames == {"x.task", "x.job"}

\* a model of python_scan: its _name and the names of its fields
ModelShapes == [name : ModelNames, fields : FieldSets]

RECURSIVE SeqsUpTo(_, _)
SeqsUpTo(S, n) ==
    IF n = 0 THEN {<<>>}
    ELSE LET shorter == SeqsUpTo(S, n - 1)
         IN shorter \cup
            {Append(q, x) : q \in {y \in shorter : Len(y) = n - 1}, x \in S}

\* python_scan['models']: every model sits in a file of its own
PythonModels ==
    {[i \in 1..Len(q) |-> [name |-> q[i].name, fields |-> q[i].fields, file |-> i]] :
        q \in SeqsUpTo(ModelShapes, MaxModels)}

\* models_by_fields: the models with three fields or more
ModelsByFields(models) == SelectSeq(models, LAMBDA m : Cardinality(m.fields) >= 3)

\* the pairs the two loops visit, in order
RECURSIVE PairsFrom(_, _, _)
PairsFrom(i, j, n) ==
    IF i >= n THEN <<>>
    ELSE IF j > n THEN PairsFrom(i + 1, i + 2, n)
    ELSE <<(<<i, j>>)>> \o PairsFrom(i, j + 1, n)

\* tuple(sorted([name1, name2]))
PairKey(name1, name2) == {name1, name2}

\* a similarity that divides by the size of the first set
OverlapOfFirst(fields1, fields2) ==
    [intersection |-> Cardinality(fields1 \cap fields2),
     union |-> Cardinality(fields1)]

\* intersection / union, kept as the two counts
Jaccard(fields1, fields2) ==
    [intersection |-> Cardinality(fields1 \cap fields2),
     union |-> Cardinality(fields1 \cup fields2)]

\* similarity >= num / den
AtLeast(similarity, num, den) ==
    similarity.intersection * den >= num * similarity.union

\* one iteration of the inner loop of _find_similar_models
ComparePair ==
    /\ results.todo # <<>>
    /\ LET models == ModelsByFields(source.models)
           model1 == models[Head(results.todo)[1]]
           model2 == models[Head(results.todo)[2]]
           pair_key == PairKey(model1.name, model2.name)
           similarity == Jaccard(model1.fields, model2.fields)
       IN results' =
            IF pair_key \in results.compared
            THEN [results EXCEPT !.todo = Tail(@)]
            ELSE [results EXCEPT
                    !.todo = Tail(@),
                    !.compared = @ \cup {pair_key},
                    !.similar_models =
                        IF similarity.union # 0 /\ AtLeast(similarity, 7, 10)
                        THEN Append(@,
                               [model1 |-> model1.name, model1_file |-> model1.file,
                                model2 |-> model2.name, model2_file |-> model2.file,
                                similarity |-> similarity,
                                severity |-> IF AtLeast(similarity, 85, 100)
                                             THEN "warning" ELSE "info"])
                        ELSE @]
    /\ UNCHANGED <<scans, findings, proc, now, tree, ret, calls, lastRun,
                   prevRun, source>>

InitSimilar ==
    /\ scans = <<>>
    /\ findings = <<>>
    /\ proc = [s \in ScanIds |-> IdleProc]
    /\ now = 0
    /\ tree = EmptyTree
    /\ ret = NoRet
    /\ calls = [fp \in AllFingerprints |-> 0]
    /\ lastRun = NoRun
    /\ prevRun = NoRun
    /\ \E models \in PythonModels :
          /\ source = [models |-> models]
          /\ results = [todo |-> PairsFrom(1, 2, Len(ModelsByFields(models))),
                        compared |-> {},
                        similar_models |-> <<>>]

NextSimilar == ComparePair

SpecSimilar == InitSimilar /\ [][NextSimilar]_vars

----------------------------------------------------------------------------
(* DuplicateAnalyzer._check_renames on the names of one component type     *)

\* A name is the sequence of its parts: a stem and the rename markers
\* around it.  Lower gives a part as re.IGNORECASE sees it.
Lower(part) ==
    CASE part = "_OLD" -> "_old"
      [] part = "Copy" -> "copy"
      [] part = "Original" -> "original"
      [] OTHER -> part

\* RENAME_PATTERNS, in order: where the pattern is anchored and what it matches
RenamePatterns ==
    <<[anchor |-> "end", marker |-> "_old"],
      [anchor |-> "end", marker |-> "_backup"],
      [anchor |-> "end", marker |-> "_deprecated"],
      [anchor |-> "end", marker |-> "_legacy"],
      [anchor |-> "end", marker |-> "_v2"],
      [anchor |-> "start", marker |-> "old_"],
      [anchor |-> "start", marker |-> "backup_"],
      [anchor |-> "start", marker |-> "deprecated_"],
      [anchor |-> "end", marker |-> "_copy"],
      [anchor |-> "end", marker |-> "_temp"],
      [anchor |-> "end", marker |-> "_test"],
      [anchor |-> "any", marker |-> "original"],
      [anchor |-> "any", marker |-> "copy"]>>

\* re.search(pattern, name, re.IGNORECASE)
Search(pattern, name) ==
    CASE pattern.anchor = "end" -> Lower(name[Len(name)]) = pattern.marker
      [] pattern.anchor = "start" -> Lower(name[1]) = pattern.marker
      [] OTHER -> \E i \in 1..Len(name) : Lower(name[i]) = pattern.marker

\* re.sub(pattern, '', name, flags=re.IGNORECASE)
Sub(pattern, name) ==
    CASE pattern.anchor = "end" -> SubSeq(name, 1, Len(name) - 1)
      [] pattern.anchor = "start" -> Tail(name)
      [] OTHER -> SelectSeq(name, LAMBDA part : Lower(part) # pattern.marker)

\* the names one call of _check_renames may be given
ComponentNames ==
    {<<"Foo">>, <<"Foo", "_old">>, <<"Bar", "_old">>, <<"old_", "Foo">>,
     <<"Foo", "Copy">>, <<"old_", "Foo", "_old">>, <<"Copy">>, <<"Foo", "_OLD">>}

ComponentTypes == {"model", "function"}

InNames(names, name) == \E i \in 1..Len(names) : names[i] = name

\* the finding of one name under one pattern; original is <<>> for None
RenamedComponent(names, name, pattern, component_type) ==
    LET base_name == Sub(pattern, name)
    IN IF InNames(names, base_name) /\ base_name # name
       THEN <<[type |-> component_type, renamed |-> name,
               original |-> <<base_name>>, pattern_matched |-> pattern,
               severity |-> "warning"]>>
       ELSE IF base_name # name
       THEN <<[type |-> component_type, renamed |-> name,
               original |-> <<>>, pattern_matched |-> pattern,
               severity |-> "info"]>>
       ELSE <<>>

\* the pattern loop without its break: one finding per matching pattern
RECURSIVE CheckNameEveryPattern(_, _, _, _)
CheckNameEveryPattern(names, name, component_type, k) ==
    IF k > Len(RenamePatterns) THEN <<>>
    ELSE (IF Search(RenamePatterns[k], name)
          THEN RenamedComponent(names, name, RenamePatterns[k], component_type)
          ELSE <<>>)
         \o CheckNameEveryPattern(names, name, component_type, k + 1)

\* the pattern loop of _check_renames for one name, from pattern k on
RECURSIVE CheckName(_, _, _, _)
CheckName(names, name, component_type, k) ==
    IF k > Len(RenamePatterns) THEN <<>>
    ELSE IF Search(RenamePatterns[k], name)
    THEN RenamedComponent(names, name, RenamePatterns[k], component_type)
    ELSE CheckName(names, name, component_type, k + 1)

\* one iteration of the name loop of _check_renames
CheckRename ==
    /\ results.todo # <<>>
    /\ results' = [todo |-> Tail(results.todo),
                   renamed_components |->
                       results.renamed_components
                       \o CheckName(source.names, Head(results.todo),
                                    source.component_type, 1)]
    /\ UNCHANGED <<scans, findings, proc, now, tree, ret, calls, lastRun,
                   prevRun, source>>

InitRenames ==
    /\ scans = <<>>
    /\ findings = <<>>
    /\ proc = [s \in ScanIds |-> IdleProc]
    /\ now = 0
    /\ tree = EmptyTree
    /\ ret = NoRet
    /\ calls = [fp \in AllFingerprints |-> 0]
    /\ lastRun = NoRun
    /\ prevRun = NoRun
    /\ \E names \in SeqsUpTo(ComponentNames, MaxNames),
          component_type \in ComponentTypes :
          /\ source = [names |-> names, component_type |-> component_type]
          /\ results = [todo |-> names, renamed_components |-> <<>>]

NextRenames == CheckRename

SpecRenames == InitRenames /\ [][NextRenames]_vars

----------------------------------------------------------------------------
(* OrphanAnalyzer._find_dangling_field_refs                                *)

\* the magic fields the view loop skips
MagicFields ==
    {"id", "create_date", "create_uid", "write_date", "write_uid",
     "display_name", "__last_update", "active"}

\* COMMON_MIXIN_FIELDS
CommonMixinFields ==
    {"message_ids", "message_follower_ids", "message_partner_ids",
     "message_channel_ids", "message_attachment_count", "message_has_error",
     "message_has_sms_error", "message_needaction",
     "message_needaction_counter", "message_unread",
     "message_unread_counter", "message_main_attachment_id", "email_from",
     "email_cc", "message_bounce", "message_is_follower",
     "activity_ids", "activity_state", "activity_user_id",
     "activity_type_id", "activity_type_icon", "activity_date_deadline",
     "activity_summary", "activity_exception_decoration",
     "activity_exception_icon", "my_activity_date_deadline",
     "user_id", "company_id", "currency_id", "partner_id", "parent_id",
     "message_count", "conversation_type", "name", "display_name_computed"}

\* the model records of the static IR: a class with _name, or one without
\* (_name is "" for None)
ClassShapes ==
    {[_name |-> "task", fields |-> fs] :
        fs \in {{}, {"name", "state"}, {"owner"}, {"name", "state", "owner"}}}
    \cup {[_name |-> "", fields |-> {"owner"}]}

NoFieldMap == [k \in {} |-> {}]

\* registry_scan['fields_by_model']: empty without a live registry
Registries ==
    {NoFieldMap, [k \in {"task"} |-> {"owner"}], [k \in {"job"} |-> {"state"}]}

\* the views of the XML scan: bound model ("" for none) and field_references
ViewShapes ==
    {[view_model |-> "task", field_references |-> fs] :
        fs \in {{"name", "state", "owner"}, {"name", "state"}, {"id", "owner"}}}
    \cup {[view_model |-> "job", field_references |-> {"name", "state", "owner"}],
          [view_model |-> "", field_references |-> {"owner"}]}

\* dict[key] = val
Put(dict, key, val) ==
    [k \in DOMAIN dict \cup {key} |-> IF k = key THEN val ELSE dict[k]]

\* the loop over python_scan['models']: each record with a _name assigns
\* its own fields to fields_by_model[_name]
RECURSIVE FieldsOfModels(_, _)
FieldsOfModels(models, dict) ==
    IF models = <<>> THEN dict
    ELSE FieldsOfModels(Tail(models),
                        IF Head(models)._name # ""
                        THEN Put(dict, Head(models)._name, Head(models).fields)
                        ELSE dict)

\* the loop over the registry's fields_by_model: set or update
FieldsByModel(models, registry) ==
    LET static == FieldsOfModels(models, NoFieldMap)
    IN [k \in DOMAIN static \cup DOMAIN registry |->
           IF k \notin DOMAIN static THEN registry[k]
           ELSE IF k \in DOMAIN registry THEN static[k] \cup registry[k]
           ELSE static[k]]

\* the missing_fields of one view against the field map
MissingFields(view, model_fields) ==
    {field \in view.field_references :
        /\ field \notin MagicFields
        /\ field \notin CommonMixinFields
        /\ field \notin model_fields}

\* one iteration of the view loop
CheckView ==
    /\ results.todo # <<>>
    /\ LET view == Head(results.todo)
           fields_by_model == FieldsByModel(source.models, source.registry)
           model_name == view.view_model
       IN results' =
            [todo |-> Tail(results.todo),
             dangling_field_refs |->
                IF model_name = "" \/ model_name \notin DOMAIN fields_by_model
                THEN results.dangling_field_refs
                ELSE IF MissingFields(view, fields_by_model[model_name]) # {}
                THEN Append(results.dangling_field_refs,
                            [view_xml_id |-> view.xml_id,
                             model |-> model_name,
                             missing_fields |->
                                MissingFields(view, fields_by_model[model_name]),
                             severity |-> "warning"])
                ELSE results.dangling_field_refs]
    /\ UNCHANGED <<scans, findings, proc, now, tree, ret, calls, lastRun,
                   prevRun, source>>

InitDangling ==
    /\ scans = <<>>
    /\ findings = <<>>
    /\ proc = [s \in ScanIds |-> IdleProc]
    /\ now = 0
    /\ tree = EmptyTree
    /\ ret = NoRet
    /\ calls = [fp \in AllFingerprints |-> 0]
    /\ lastRun = NoRun
    /\ prevRun = NoRun
    /\ \E models \in SeqsUpTo(ClassShapes, MaxClasses),
          registry \in Registries,
          shapes \in SeqsUpTo(ViewShapes, MaxViews) :
          LET views == [i \in 1..Len(shapes) |->
                           [xml_id |-> i,
                            view_model |-> shapes[i].view_model,
                            field_references |-> shapes[i].field_references]]
          IN /\ source = [models |-> models, registry |-> registry,
                          views |-> views]
             /\ results = [todo |-> views, dangling_field_refs |-> <<>>]

NextDangling == CheckView

SpecDangling == InitDangling /\ [][NextDangling]_vars

----------------------------------------------------------------------------
(* RelationshipMapper.find_circular_dependencies                           *)

\* dependency_graph['models'] over the models 1..n, in the order of its
\* keys: the depends_on of each model, listed in ascending order
DependencyGraphs ==
    UNION {[1..n -> SUBSET (1..n)] : n \in 1..MaxNodes}

RECURSIVE ListOf(_)
ListOf(deps) ==
    IF deps = {} THEN <<>>
    ELSE LET first == CHOOSE d \in deps : \A e \in deps : d <= e
         IN <<first>> \o ListOf(deps \ {first})

\* graph.get(model, {}).get('depends_on', [])
DependsOn(graph, model) ==
    IF model \in DOMAIN graph THEN ListOf(graph[model]) ELSE <<>>

\* path.index(model): 0 when the model is not in the path (ValueError)
Index(path, model) ==
    IF \E i \in 1..Len(path) : path[i] = model
    THEN CHOOSE i \in 1..Len(path) :
            /\ path[i] = model
            /\ \A j \in 1..(i - 1) : path[j] # model
    ELSE 0

\* what a call of dfs leaves: the two sets, the cycle it returns (<<>> for
\* None) and whether it raised
DfsReturn(visited, rec_stack, result, raised) ==
    [visited |-> visited, rec_stack |-> rec_stack, result |-> result,
     raised |-> raised]

RECURSIVE Dfs(_, _, _, _, _)
RECURSIVE DfsDeps(_, _, _, _, _, _)

\* the nested function dfs(model, path)
Dfs(graph, model, path, visited, rec_stack) ==
    IF model \in rec_stack
    THEN IF Index(path, model) = 0
         THEN DfsReturn(visited, rec_stack, <<>>, TRUE)
         ELSE DfsReturn(visited, rec_stack,
                        SubSeq(path, Index(path, model), Len(path))
                            \o <<model>>,
                        FALSE)
    ELSE IF model \in visited
    THEN DfsReturn(visited, rec_stack, <<>>, FALSE)
    ELSE DfsDeps(graph, model, DependsOn(graph, model), path \o <<model>>,
                 visited \cup {model}, rec_stack \cup {model})

\* the loop of dfs over the dependencies of model: a cycle or an exception
\* leaves the loop at once, with model still in rec_stack
DfsDeps(graph, model, deps, path, visited, rec_stack) ==
    IF deps = <<>>
    THEN DfsReturn(visited, rec_stack \ {model}, <<>>, FALSE)
    ELSE LET r == Dfs(graph, Head(deps), path, visited, rec_stack)
         IN IF r.raised \/ r.result # <<>>
            THEN r
            ELSE DfsDeps(graph, model, Tail(deps), path, r.visited,
                         r.rec_stack)

\* tuple(sorted(cycle)), as the number of times each model is in the cycle
SortedTuple(cycle) ==
    [m \in 1..MaxNodes |-> Cardinality({i \in 1..Len(cycle) : cycle[i] = m})]

\* one iteration of the loop over the models of the graph
FindCycle ==
    /\ results.todo # <<>>
    /\ ~results.raised
    /\ LET r == Dfs(source.graph, Head(results.todo), <<>>, results.visited,
                    results.rec_stack)
       IN results' =
            [todo |-> Tail(results.todo),
             visited |-> r.visited,
             rec_stack |-> r.rec_stack,
             raised |-> r.raised,
             circular |->
                IF /\ ~r.raised
                   /\ r.result # <<>>
                   /\ \A i \in 1..Len(results.circular) :
                         SortedTuple(results.circular[i].cycle)
                             # SortedTuple(r.result)
                THEN Append(results.circular,
                            [type |-> "model", cycle |-> r.result,
                             severity |-> "warning"])
                ELSE results.circular]
    /\ UNCHANGED <<scans, findings, proc, now, tree, ret, calls, lastRun,
                   prevRun, source>>

InitCycles ==
    /\ scans = <<>>
    /\ findings = <<>>
    /\ proc = [s \in ScanIds |-> IdleProc]
    /\ now = 0
    /\ tree = EmptyTree
    /\ ret = NoRet
    /\ calls = [fp \in AllFingerprints |-> 0]
    /\ lastRun = NoRun
    /\ prevRun = NoRun
    /\ \E graph \in DependencyGraphs :
          /\ source = [graph |-> graph]
          /\ results = [todo |-> ListOf(DOMAIN graph), visited |-> {},
                        rec_stack |-> {}, raised |-> FALSE,
                        circular |-> <<>>]

NextCycles == FindCycle

SpecCycles == InitCycles /\ [][NextCycles]_vars

----------------------------------------------------------------------------
(* OdooModelVisitor.visit_ClassDef and OrphanAnalyzer._find_orphaned_models *)

\* a base of a class statement: a name (<<"Model">>) or an attribute of a
\* name (<<"models", "Model">>)
BaseExpressions ==
    {<<"models", "Model">>, <<"models", "AbstractModel">>,
     <<"models", "TransientModel">>, <<"AbstractModel">>, <<"object">>}

\* _get_name of an ast.Name or ast.Attribute
GetName(base) ==
    IF Len(base) = 1 THEN base[1] ELSE base[1] \o "." \o base[2]

OdooBases ==
    {"models.Model", "models.TransientModel", "models.AbstractModel",
     "Model", "TransientModel", "AbstractModel"}

\* the class statements of the source files: one base each, _name "" when
\* the class assigns none
ClassStatements ==
    {[_name |-> n, base |-> b] :
        n \in {"task", "job", ""}, b \in BaseExpressions \ {<<"object">>}}
    \cup {[_name |-> "task", base |-> <<"object">>]}

\* visit_ClassDef: the record appended to models, if any
VisitClass(class) ==
    IF GetName(class.base) \in OdooBases
    THEN <<[_name |-> class._name, bases |-> <<GetName(class.base)>>]>>
    ELSE <<>>

\* 'AbstractModel' in model_info.get('bases', [])
InBases(name, bases) == \E i \in 1..Len(bases) : bases[i] = name

\* the keys of python_models in the order of their first record
RECURSIVE KeysOf(_, _)
KeysOf(models, seen) ==
    IF models = <<>> THEN <<>>
    ELSE IF Head(models)._name = "" \/ Head(models)._name \in seen
    THEN KeysOf(Tail(models), seen)
    ELSE <<Head(models)._name>>
         \o KeysOf(Tail(models), seen \cup {Head(models)._name})

\* python_models[model_name]: the last record with that _name
ModelInfo(models, model_name) ==
    LET last == CHOOSE i \in 1..Len(models) :
                   /\ models[i]._name = model_name
                   /\ \A j \in (i + 1)..Len(models) : models[j]._name # model_name
    IN models[last]

\* the scanner visits the next class statement of the source
VisitClassDef ==
    /\ results.classes # <<>>
    /\ results' = [results EXCEPT
            !.classes = Tail(@),
            !.models = @ \o VisitClass(Head(results.classes)),
            !.todo = KeysOf(results.models \o VisitClass(Head(results.classes)),
                            {})]
    /\ UNCHANGED <<scans, findings, proc, now, tree, ret, calls, lastRun,
                   prevRun, source>>

\* one iteration of the loop of _find_orphaned_models over python_models
CheckOrphanedModel ==
    /\ results.classes = <<>>
    /\ results.todo # <<>>
    /\ LET model_name == Head(results.todo)
           model_info == ModelInfo(results.models, model_name)
           has_views == model_name \in source.models_with_views
           has_actions == model_name \in source.models_with_actions
       IN results' = [results EXCEPT
            !.todo = Tail(@),
            !.orphaned_models =
                IF InBases("AbstractModel", model_info.bases)
                   \/ InBases("TransientModel", model_info.bases)
                THEN @
                ELSE IF ~has_views /\ ~has_actions
                THEN Append(@, [model |-> model_name, has_views |-> FALSE,
                                has_actions |-> FALSE, severity |-> "info"])
                ELSE @]
    /\ UNCHANGED <<scans, findings, proc, now, tree, ret, calls, lastRun,
                   prevRun, source>>

InitOrphans ==
    /\ scans = <<>>
    /\ findings = <<>>
    /\ proc = [s \in ScanIds |-> IdleProc]
    /\ now = 0
    /\ tree = EmptyTree
    /\ ret = NoRet
    /\ calls = [fp \in AllFingerprints |-> 0]
    /\ lastRun = NoRun
    /\ prevRun = NoRun
    /\ \E classes \in SeqsUpTo(ClassStatements, MaxStatements),
          models_with_views \in SUBSET {"task"},
          models_with_actions \in SUBSET {"task"} :
          /\ source = [classes |-> classes,
                       models_with_views |-> models_with_views,
                       models_with_actions |-> models_with_actions]
          /\ results = [classes |-> classes, models |-> <<>>, todo |-> <<>>,
                        orphaned_models |-> <<>>]

NextOrphans == VisitClassDef \/ CheckOrphanedModel

SpecOrphans == InitOrphans /\ [][NextOrphans]_vars

----------------------------------------------------------------------------
(* OrphanAnalyzer._find_orphaned_menus                                     *)

\* An XML id or a reference to one is the sequence of its parts between
\* dots: <<"action_a">>, <<"base", "action_x">>; <<>> is no reference.
ActionRefs == {<<>>, <<"action_a">>, <<"action_gone">>, <<"base", "action_x">>}

ParentRefs == {<<>>, <<"menu_root">>, <<"menu_gone">>, <<"base", "menu_x">>}

MenuShapes ==
    {[xml_id |-> id, action |-> a, parent_id |-> p] :
        id \in {<<"menu_root">>, <<"menu_child">>},
        a \in ActionRefs, p \in ParentRefs}

\* the issue of one reference that is not among the local ids
RefIssue(ref, kind) ==
    IF Len(ref) > 1
    THEN [type |-> "external_" \o kind, ref |-> ref, module |-> ref[1]]
    ELSE [type |-> "missing_" \o kind, ref |-> ref, module |-> ""]

\* the issues list of one menu
MenuIssues(menu, all_action_ids, all_menu_ids) ==
    (IF menu.action # <<>> /\ menu.action \notin all_action_ids
     THEN <<RefIssue(menu.action, "action")>> ELSE <<>>)
    \o (IF menu.parent_id # <<>> /\ menu.parent_id \notin all_menu_ids
        THEN <<RefIssue(menu.parent_id, "parent")>> ELSE <<>>)

\* i['type'].startswith('missing')
StartsWithMissing(type) == type \in {"missing_action", "missing_parent"}

\* a severity that is error only when every issue is a missing reference
MenuSeverityAllMissing(issues) ==
    IF \A i \in 1..Len(issues) : StartsWithMissing(issues[i].type)
    THEN "error" ELSE "info"

\* severity of the finding of a menu with issues
MenuSeverity(issues) ==
    IF \E i \in 1..Len(issues) : StartsWithMissing(issues[i].type)
    THEN "error" ELSE "info"

\* one iteration of the loop over the menus
CheckMenu ==
    /\ results.todo # <<>>
    /\ LET menu == Head(results.todo)
           all_action_ids == {a \in source.actions : a # <<>>}
           all_menu_ids == {source.menus[i].xml_id : i \in 1..Len(source.menus)}
                           \ {<<>>}
           issues == MenuIssues(menu, all_action_ids, all_menu_ids)
       IN results' =
            [todo |-> Tail(results.todo),
             orphaned_menus |->
                IF issues # <<>>
                THEN Append(results.orphaned_menus,
                            [menu_xml_id |-> menu.xml_id, issues |-> issues,
                             severity |-> MenuSeverity(issues)])
                ELSE results.orphaned_menus]
    /\ UNCHANGED <<scans, findings, proc, now, tree, ret, calls, lastRun,
                   prevRun, source>>

InitMenus ==
    /\ scans = <<>>
    /\ findings = <<>>
    /\ proc = [s \in ScanIds |-> IdleProc]
    /\ now = 0
    /\ tree = EmptyTree
    /\ ret = NoRet
    /\ calls = [fp \in AllFingerprints |-> 0]
    /\ lastRun = NoRun
    /\ prevRun = NoRun
    /\ \E menus \in SeqsUpTo(MenuShapes, MaxMenus),
          actions \in SUBSET {<<"action_a">>} :
          /\ source = [menus |-> menus, actions |-> actions]
          /\ results = [todo |-> menus, orphaned_menus |-> <<>>]

NextMenus == CheckMenu

SpecMenus == InitMenus /\ [][NextMenus]_vars

----------------------------------------------------------------------------
(* CommentedCodeAnalyzer._analyze_python_file                              *)

\* A source line with what the patterns of the analyzer say of it:
\* comment = stripped.startswith('#'), code = a match of
\* PYTHON_CODE_PATTERNS, marker = a match of DELETION_MARKERS, excluded = a
\* match of DELETION_MARKER_EXCLUSIONS.
Line(text, comment, code, marker, excluded) ==
    [text |-> text, comment |-> comment, code |-> code, marker |-> marker,
     excluded |-> excluded]

SourceLines ==
    {Line("x = 1", FALSE, FALSE, FALSE, FALSE),
     Line("x_old = 1", FALSE, FALSE, TRUE, FALSE),
     Line("# just words", TRUE, FALSE, FALSE, FALSE),
     Line("# x = 1", TRUE, TRUE, FALSE, FALSE),
     Line("# x_old = 1", TRUE, TRUE, TRUE, FALSE),
     Line("# DEPRECATED: gone", TRUE, FALSE, TRUE, FALSE),
     Line("# x_old = remove from list", TRUE, TRUE, TRUE, TRUE),
     Line("# TODO: remove this, delete from cache", TRUE, FALSE, TRUE, TRUE)}

\* any(re.search(p, full_text) ...) over the joined lines of a block
AnyLine(lines, block_lines, flag) ==
    \E k \in 1..Len(block_lines) : lines[block_lines[k]][flag]

BlockFinding(lines, block_lines) ==
    LET has_deletion == ~AnyLine(lines, block_lines, "excluded")
                        /\ AnyLine(lines, block_lines, "marker")
    IN <<[line_start |-> block_lines[1],
          line_end |-> block_lines[Len(block_lines)],
          line_count |-> Len(block_lines),
          has_deletion_marker |-> has_deletion,
          severity |-> IF has_deletion THEN "warning" ELSE "info",
          finding_type |-> "commented_python_code"]>>

\* a _create_finding that keeps blocks of one line
CreateBlockFindingAnyLength(lines, block_lines) ==
    BlockFinding(lines, block_lines)

\* _create_finding: nothing for a block of one line without a marker
CreateBlockFinding(lines, block_lines) ==
    IF Len(block_lines) < 2 /\ ~AnyLine(lines, block_lines, "marker")
    THEN <<>>
    ELSE BlockFinding(lines, block_lines)

\* the block is ended: its finding, if there is a block
EndBlock(lines, block_lines) ==
    IF block_lines # <<>> THEN CreateBlockFinding(lines, block_lines) ELSE <<>>

\* one iteration of the line loop of _analyze_python_file
ScanLine ==
    /\ results.phase = "lines"
    /\ results.i <= Len(source.lines)
    /\ LET line == source.lines[results.i]
       IN IF line.comment /\ line.code
          THEN results' = [results EXCEPT
                  !.i = @ + 1,
                  !.block_lines = Append(@, results.i)]
          ELSE results' = [results EXCEPT
                  !.i = @ + 1,
                  !.block_lines = <<>>,
                  !.findings = @ \o EndBlock(source.lines, results.block_lines)]
    /\ UNCHANGED <<scans, findings, proc, now, tree, ret, calls, lastRun,
                   prevRun, source>>

\* the block at end of file; _find_deletion_markers starts
EndOfFile ==
    /\ results.phase = "lines"
    /\ results.i > Len(source.lines)
    /\ results' = [results EXCEPT
            !.phase = IF source.lines = <<>> THEN "done" ELSE "markers",
            !.i = 1,
            !.block_lines = <<>>,
            !.findings = @ \o EndBlock(source.lines, results.block_lines)]
    /\ UNCHANGED <<scans, findings, proc, now, tree, ret, calls, lastRun,
                   prevRun, source>>

\* the finding of _find_deletion_markers for line i, if any
DeletionMarker(line, i) ==
    IF line.comment /\ ~line.excluded /\ line.marker
    THEN <<[line_start |-> i, line_end |-> i, line_count |-> 1,
            has_deletion_marker |-> TRUE, severity |-> "warning",
            finding_type |-> "deletion_marker"]>>
    ELSE <<>>

\* one iteration of the loop of _find_deletion_markers
FindDeletionMarker ==
    /\ results.phase = "markers"
    /\ results' = [results EXCEPT
            !.phase = IF results.i = Len(source.lines) THEN "done" ELSE @,
            !.i = @ + 1,
            !.findings = @ \o DeletionMarker(source.lines[results.i], results.i)]
    /\ UNCHANGED <<scans, findings, proc, now, tree, ret, calls, lastRun,
                   prevRun, source>>

InitCommented ==
    /\ scans = <<>>
    /\ findings = <<>>
    /\ proc = [s \in ScanIds |-> IdleProc]
    /\ now = 0
    /\ tree = EmptyTree
    /\ ret = NoRet
    /\ calls = [fp \in AllFingerprints |-> 0]
    /\ lastRun = NoRun
    /\ prevRun = NoRun
    /\ \E lines \in SeqsUpTo(SourceLines, MaxLines) :
          /\ source = [lines |-> lines]
          /\ results = [phase |-> "lines", i |-> 1, block_lines |-> <<>>,
                        findings |-> <<>>]

NextCommented == ScanLine \/ EndOfFile \/ FindDeletionMarker

SpecCommented == InitCommented /\ [][NextCommented]_vars

----------------------------------------------------------------------------
(* EcosystemAnalyzer.analyze and insights.scan._store_results, by phase    *)

StaticScanners == {"python_scan", "xml_scan", "asset_scan"}

Analyzers == {"duplicate_analysis", "orphan_analysis",
              "commented_code_analysis", "integration_reference_analysis",
              "external_path_analysis"}

\* the calls of analyze, _generate_report and _store_results, as written
Phases ==
    <<"python_scan", "xml_scan", "asset_scan", "registry_scan",
      "duplicate_analysis", "orphan_analysis", "commented_code_analysis",
      "integration_reference_analysis", "external_path_analysis",
      "relationship_mapping", "categorize_issues",
      "generate_recommendations", "calculate_health_score",
      "generate_summary", "return_report", "write_scan", "create_findings">>

\* an order that calculates the health score before the issues are
\* gathered
PhasesScoreFirst ==
    <<"python_scan", "xml_scan", "asset_scan", "registry_scan",
      "duplicate_analysis", "orphan_analysis", "commented_code_analysis",
      "integration_reference_analysis", "external_path_analysis",
      "relationship_mapping", "calculate_health_score", "categorize_issues",
      "generate_recommendations",
      "generate_summary", "return_report", "write_scan", "create_findings">>

\* the phase at position pc of the run
PhaseAtScoreFirst(pc) == PhasesScoreFirst[pc]

PhaseAt(pc) == Phases[pc]

\* the phase the run is at, "" once it is over
Current == IF results.pc \in 1..Len(Phases) THEN PhaseAt(results.pc) ELSE ""

\* analyzer.analyze(include_registry=include_registry,
\*                  env=self.env if include_registry else None)
Env(include_registry) == include_registry

NoReport == [critical_issues |-> <<>>, warnings |-> <<>>,
             recommendations |-> <<>>, health_score |-> 0, summary |-> <<>>]

Returned(phase) ==
    [results EXCEPT !.pc = @ + 1, !.done = Append(@, phase)]

\* the three static scanners assign their part of the IR
RunScanner ==
    /\ Current \in StaticScanners
    /\ results' = [Returned(Current) EXCEPT !.ir = @ \cup {Current}]
    /\ UNCHANGED <<scans, findings, proc, now, tree, ret, calls, lastRun,
                   prevRun, source>>

\* if include_registry and env: self._run_registry_scan(env)
RunRegistryScan ==
    /\ Current = "registry_scan"
    /\ results' =
          IF source.include_registry /\ Env(source.include_registry)
          THEN [Returned(Current) EXCEPT !.ir = @ \cup {Current}]
          ELSE [results EXCEPT !.pc = @ + 1]
    /\ UNCHANGED <<scans, findings, proc, now, tree, ret, calls, lastRun,
                   prevRun, source>>

\* what an analyzer finds: the duplicate and the orphan analyzer work on
\* the IR, which is empty before the scanners have assigned it; the
\* others read the files
FindingsOf(phase, ir, t) ==
    CASE phase = "duplicate_analysis" ->
            IF StaticScanners \subseteq ir THEN t.duplicate ELSE <<>>
      [] phase = "orphan_analysis" ->
            IF StaticScanners \subseteq ir THEN t.orphan ELSE <<>>
      [] phase = "commented_code_analysis" -> t.commented
      [] phase = "external_path_analysis" -> t.external
      [] OTHER -> <<>>

RunAnalyzer ==
    /\ Current \in Analyzers
    /\ LET items == FindingsOf(Current, results.ir, source.tree)
       IN results' =
            [Returned(Current) EXCEPT
               !.found =
                  CASE Current = "duplicate_analysis" ->
                          [@ EXCEPT !.duplicate = items]
                    [] Current = "orphan_analysis" ->
                          [@ EXCEPT !.orphan = items]
                    [] Current = "commented_code_analysis" ->
                          [@ EXCEPT !.commented = items]
                    [] Current = "external_path_analysis" ->
                          [@ EXCEPT !.external = items]
                    [] OTHER -> @]
    /\ UNCHANGED <<scans, findings, proc, now, tree, ret, calls, lastRun,
                   prevRun, source>>

RunRelationshipMapping ==
    /\ Current = "relationship_mapping"
    /\ results' =
          [Returned(Current) EXCEPT
             !.found.traces =
                IF StaticScanners \subseteq results.ir
                THEN source.tree.traces ELSE 0]
    /\ UNCHANGED <<scans, findings, proc, now, tree, ret, calls, lastRun,
                   prevRun, source>>

\* the steps of _generate_report, each on what the run holds by then
GenerateReportStep ==
    /\ Current \in {"categorize_issues", "generate_recommendations",
                    "calculate_health_score", "generate_summary"}
    /\ results' =
          [Returned(Current) EXCEPT
             !.report =
                CASE Current = "categorize_issues" ->
                        [@ EXCEPT
                           !.critical_issues =
                              CategorizeIssues(results.found).critical_issues,
                           !.warnings =
                              CategorizeIssues(results.found).warnings]
                  [] Current = "generate_recommendations" ->
                        [@ EXCEPT !.recommendations =
                              GenerateRecommendations(results.found)]
                  [] Current = "calculate_health_score" ->
                        [@ EXCEPT !.health_score =
                              CalculateHealthScore(results.found,
                                  results.report.critical_issues,
                                  results.report.warnings)]
                  [] OTHER ->
                        [@ EXCEPT !.summary =
                              <<GetHealthStatus(results.report.health_score),
                                Len(results.report.critical_issues),
                                Len(results.report.warnings)>>]]
    /\ UNCHANGED <<scans, findings, proc, now, tree, ret, calls, lastRun,
                   prevRun, source>>

\* analysis_duration_seconds is set and analyze returns the report
ReturnReport ==
    /\ Current = "return_report"
    /\ results' = [Returned(Current) EXCEPT !.returned = <<results.report>>]
    /\ UNCHANGED <<scans, findings, proc, now, tree, ret, calls, lastRun,
                   prevRun, source>>

\* _store_results: the fields of the scan record, then _create_findings
\* on the report that analyze returned
StoreResults ==
    /\ Current \in {"write_scan", "create_findings"}
    /\ results' =
          IF Current = "write_scan"
          THEN [Returned(Current) EXCEPT
                  !.scan_score = <<results.returned[1].health_score>>]
          ELSE [Returned(Current) EXCEPT
                  !.stored = Candidates(results.returned[1])]
    /\ UNCHANGED <<scans, findings, proc, now, tree, ret, calls, lastRun,
                   prevRun, source>>

\* an exception out of the phase the run is at: except Exception in
\* action_run_scan, the scan fails and no later phase runs
PhaseRaised ==
    /\ Current # ""
    /\ results' = [results EXCEPT !.pc = 0]
    /\ UNCHANGED <<scans, findings, proc, now, tree, ret, calls, lastRun,
                   prevRun, source>>

InitPipeline ==
    /\ scans = <<>>
    /\ findings = <<>>
    /\ proc = [s \in ScanIds |-> IdleProc]
    /\ now = 0
    /\ tree = EmptyTree
    /\ ret = NoRet
    /\ calls = [fp \in AllFingerprints |-> 0]
    /\ lastRun = NoRun
    /\ prevRun = NoRun
    /\ \E include_registry \in BOOLEAN, t \in FixedTrees :
          /\ source = [include_registry |-> include_registry, tree |-> t]
          /\ results = [pc |-> 1, done |-> <<>>, ir |-> {},
                        found |-> EmptyTree, report |-> NoReport,
                        returned |-> <<>>, scan_score |-> <<>>,
                        stored |-> <<>>]

NextPipeline ==
    \/ RunScanner
    \/ RunRegistryScan
    \/ RunAnalyzer
    \/ RunRelationshipMapping
    \/ GenerateReportStep
    \/ ReturnReport
    \/ StoreResults
    \/ PhaseRaised

SpecPipeline == InitPipeline /\ [][NextPipeline]_vars

----------------------------------------------------------------------------
(* The analyzers and the relationship mapper over one IR                   *)

\* the model records and the views of the IR handed to the three
FrameClasses ==
    {c \in ClassShapes : c.fields \in {{"name", "state"}, {"owner"}}}

FrameViews ==
    {v \in ViewShapes : v.field_references = {"name", "state", "owner"}}

\* DuplicateAnalyzer._find_duplicate_models: the definitions of each
\* _name, with the field_count of each, and one finding per name that has
\* more than one
DefinitionsOf(models, model_name) ==
    LET same == SelectSeq(models, LAMBDA m : m._name = model_name)
    IN [i \in 1..Len(same) |-> [field_count |-> Cardinality(same[i].fields)]]

RECURSIVE DuplicateModelsOf(_, _, _)
DuplicateModelsOf(models, todo, seen) ==
    IF todo = <<>> THEN <<>>
    ELSE LET model_name == Head(todo)._name
             first == model_name # "" /\ model_name \notin seen
             found ==
                IF first /\ Len(DefinitionsOf(models, model_name)) > 1
                THEN <<[model_name |-> model_name,
                        definitions |-> DefinitionsOf(models, model_name),
                        is_inheritance |-> FALSE,
                        severity |-> "error"]>>
                ELSE <<>>
         IN found \o DuplicateModelsOf(models, Tail(todo),
                                        seen \cup {model_name})

\* the model records after _find_dangling_field_refs has updated its
\* field map with the registry's fields, when the map held the records'
\* own collections
ModelsAfterFieldMapShared(models, registry) ==
    [i \in 1..Len(models) |->
        IF models[i]._name \in DOMAIN registry
        THEN [models[i] EXCEPT !.fields = @ \cup registry[models[i]._name]]
        ELSE models[i]]

\* the model records after _find_dangling_field_refs has updated its
\* field map: the map holds sets built for it ({f['name'] for f in ...},
\* set(fields)), and update() changes those
ModelsAfterFieldMap(models, registry) == models

\* the view loop of _find_dangling_field_refs
RECURSIVE DanglingFieldRefs(_, _)
DanglingFieldRefs(views, fields_by_model) ==
    IF views = <<>> THEN <<>>
    ELSE LET view == Head(views)
             model_name == view.view_model
         IN (IF model_name = "" \/ model_name \notin DOMAIN fields_by_model
             THEN <<>>
             ELSE IF MissingFields(view, fields_by_model[model_name]) # {}
             THEN <<[view_xml_id |-> view.xml_id,
                     model |-> model_name,
                     missing_fields |->
                        MissingFields(view, fields_by_model[model_name]),
                     severity |-> "warning"]>>
             ELSE <<>>)
            \o DanglingFieldRefs(Tail(views), fields_by_model)

\* RelationshipMapper._map_model_to_views
ModelToViews(views) ==
    [model \in {views[i].view_model : i \in 1..Len(views)} \ {""} |->
        LET bound == SelectSeq(views, LAMBDA v : v.view_model = model)
        IN [i \in 1..Len(bound) |-> bound[i].xml_id]]

\* RelationshipMapper._build_full_traces: the IR here holds no action and
\* no menu
FullTraces(models, model_to_views) ==
    LET ViewsOf(model_name) ==
            IF model_name \in DOMAIN model_to_views
            THEN model_to_views[model_name] ELSE <<>>
        named == SelectSeq(models, LAMBDA m : m._name # "")
        traces == [i \in 1..Len(named) |->
                      [model |-> named[i]._name,
                       views |-> ViewsOf(named[i]._name),
                       actions |-> <<>>, menus |-> <<>>,
                       complete |-> FALSE]]
    IN SelectSeq(traces, LAMBDA t : t.views # <<>>)

\* _run_duplicate_analysis
RunDuplicateAnalysis ==
    /\ results.duplicate_findings = <<>>
    /\ results' =
          [results EXCEPT
             !.duplicate_findings =
                <<DuplicateModelsOf(results.python_scan, results.python_scan,
                                    {})>>]
    /\ UNCHANGED <<scans, findings, proc, now, tree, ret, calls, lastRun,
                   prevRun, source>>

\* _run_orphan_analysis
RunOrphanAnalysis ==
    /\ results.orphan_findings = <<>>
    /\ results' =
          [results EXCEPT
             !.python_scan =
                ModelsAfterFieldMap(results.python_scan,
                                    results.registry_scan),
             !.orphan_findings =
                <<DanglingFieldRefs(results.xml_scan,
                     FieldsByModel(results.python_scan,
                                   results.registry_scan))>>]
    /\ UNCHANGED <<scans, findings, proc, now, tree, ret, calls, lastRun,
                   prevRun, source>>

\* _run_relationship_mapping, first half: the maps
MapModelToViews ==
    /\ results.model_to_views = <<>>
    /\ results' =
          [results EXCEPT
             !.model_to_views = <<ModelToViews(results.xml_scan)>>]
    /\ UNCHANGED <<scans, findings, proc, now, tree, ret, calls, lastRun,
                   prevRun, source>>

\* _run_relationship_mapping, second half: the traces
BuildFullTraces ==
    /\ results.model_to_views # <<>>
    /\ results.full_traces = <<>>
    /\ results' =
          [results EXCEPT
             !.full_traces =
                <<FullTraces(results.python_scan,
                             results.model_to_views[1])>>]
    /\ UNCHANGED <<scans, findings, proc, now, tree, ret, calls, lastRun,
                   prevRun, source>>

InitFrame ==
    /\ scans = <<>>
    /\ findings = <<>>
    /\ proc = [s \in ScanIds |-> IdleProc]
    /\ now = 0
    /\ tree = EmptyTree
    /\ ret = NoRet
    /\ calls = [fp \in AllFingerprints |-> 0]
    /\ lastRun = NoRun
    /\ prevRun = NoRun
    /\ \E models \in SeqsUpTo(FrameClasses, MaxClasses),
          registry \in Registries,
          shapes \in SeqsUpTo(FrameViews, MaxViews) :
          LET views == [i \in 1..Len(shapes) |->
                           [xml_id |-> i,
                            view_model |-> shapes[i].view_model,
                            field_references |-> shapes[i].field_references]]
          IN /\ source = [models |-> models, registry |-> registry,
                          views |-> views]
             /\ results = [python_scan |-> models, xml_scan |-> views,
                           registry_scan |-> registry,
                           duplicate_findings |-> <<>>,
                           orphan_findings |-> <<>>,
                           model_to_views |-> <<>>, full_traces |-> <<>>]

NextFrame ==
    \/ RunDuplicateAnalysis
    \/ RunOrphanAnalysis
    \/ MapModelToViews
    \/ BuildFullTraces

SpecFrame == InitFrame /\ [][NextFrame]_vars

----------------------------------------------------------------------------
(* Properties                                                              *)

FindingIds == 1..Len(findings)

CallHitExisting ==
    /\ ret.op = "find_or_create"
    /\ \E i \in 1..Len(ret.store_before) :
          ret.store_before[i].fingerprint = FingerprintOf(ret.vals)

CallFoundNone ==
    /\ ret.op = "find_or_create"
    /\ \A i \in 1..Len(ret.store_before) :
          ret.store_before[i].fingerprint # FingerprintOf(ret.vals)

\* C1: a find_or_create call that hits a record whose status is no longer
\* 'new' leaves its status, severity and description as they were, sets
\* last_seen_date to the time of the call, adds exactly 1 to
\* occurrence_count and assigns scan_id to the calling run; a call that
\* changes severity or description hit a record whose status was 'new'.
C1_TriagedFindingKept ==
    CallHitExisting =>
        LET before == ret.before
            after == findings[ret.id]
        IN /\ before.status # "new" =>
                /\ after.status = before.status
                /\ after.severity = before.severity
                /\ after.description = before.description
                /\ after.last_seen_date = ret.time
                /\ after.occurrence_count = before.occurrence_count + 1
                /\ after.scan_id = ret.scan
           /\ (after.severity # before.severity
               \/ after.description # before.description)
                 => before.status = "new"

\* a triaged record was detected again by a candidate whose description
\* differs from the stored one
C1_Witness ==
    /\ CallHitExisting
    /\ ret.before.status # "new"
    /\ ret.vals.description # ""
    /\ ret.vals.description # ret.before.description
    /\ ret.time > ret.before.last_seen_date

\* C6: a find_or_create call whose fingerprint is absent from the store
\* creates exactly one record, with first_seen_date = last_seen_date = the
\* time of the call, occurrence_count = 1, status = 'new' and scan_id =
\* first_seen_scan_id = the calling run, and leaves every other record
\* unchanged.
C6_AbsentFingerprintCreated ==
    CallFoundNone =>
        /\ Len(findings) = Len(ret.store_before) + 1
        /\ SubSeq(findings, 1, Len(ret.store_before)) = ret.store_before
        /\ LET created == findings[Len(findings)]
           IN /\ created.fingerprint = FingerprintOf(ret.vals)
              /\ created.first_seen_date = ret.time
              /\ created.last_seen_date = ret.time
              /\ created.occurrence_count = 1
              /\ created.status = "new"
              /\ created.scan_id = ret.scan
              /\ created.first_seen_scan_id = ret.scan

\* a record was created next to one that an earlier run had left
C6_Witness ==
    /\ CallFoundNone
    /\ Len(ret.store_before) >= 1
    /\ ret.time > ret.store_before[1].first_seen_date

NonTerminal == {s \in 1..Len(scans) : scans[s].state \in {"draft", "running"}}

\* C5: at any time at most one scan is draft or running.
C5_OneNonTerminalScan == Cardinality(NonTerminal) <= 1

Lifecycle == {<<"draft", "running">>, <<"running", "completed">>,
              <<"running", "failed">>}

\* C7 as amended: a scan moves draft -> running -> {completed, failed}
\* and, by action_run_scan on a failed scan, failed -> running; a completed
\* scan is never changed again, action_run_scan on it being rejected.
C7_CompletedScanImmutable ==
    [][\A s \in 1..Len(scans) :
          /\ scans[s].state = "completed" => scans'[s] = scans[s]
          /\ scans'[s].state # scans[s].state =>
                <<scans[s].state, scans'[s].state>>
                    \in Lifecycle \cup {<<"failed", "running">>}]_vars

\* C7 as stated: a scan moves draft -> running -> {completed, failed}
\* only, and a completed or failed scan is never changed again.
C7_TerminalScanImmutable ==
    [][\A s \in 1..Len(scans) :
          /\ scans[s].state \in {"completed", "failed"} => scans'[s] = scans[s]
          /\ scans'[s].state # scans[s].state =>
                <<scans[s].state, scans'[s].state>> \in Lifecycle]_vars

\* action_run_scan was called on a completed scan and raised
C7_Witness ==
    /\ ret.op = "action_run_scan"
    /\ ret.error = "Can only run scans in draft or failed state"
    /\ scans[ret.scan].state = "completed"
    /\ scans[ret.scan].findings_new > 0

RunJustFailed ==
    /\ ret.op = "action_run_scan"
    /\ ret.scan # 0
    /\ scans[ret.scan].state = "failed"

\* C8: a run that ends failed leaves the Finding Store as it was when the
\* run started.
C8_FailedRunLeavesStore ==
    RunJustFailed => findings = ret.store_before

\* C9: a run on a root path that does not exist, or whose registry scan
\* was requested and failed, does not reach state completed.
C9_RunLevelErrorFails ==
    \A s \in 1..Len(scans) :
        scans[s].state = "completed" =>
            /\ ScanPath(scans[s]) \in ExistingPaths
            /\ scans[s].registry_errors = 0

Completed == {s \in 1..Len(scans) : scans[s].state = "completed"}

C3_FingerprintUnique ==
    \A i, j \in FindingIds :
        findings[i].fingerprint = findings[j].fingerprint => i = j

\* a run lost the race for a fingerprint and its insert was refused,
\* a record was detected twice and a record was triaged
C3_Witness ==
    /\ \E s \in 1..Len(scans) : scans[s].error_message = "fingerprint_unique"
    /\ \E i \in FindingIds : findings[i].occurrence_count >= 2
    /\ \E i \in FindingIds : findings[i].status # "new"

\* C4: whatever the interleaving of two runs, every fingerprint has one
\* record whose occurrence_count is the number of find_or_create calls
\* that returned for it, as after the calls in some serial order.
C4_CallsSerializable ==
    \A i \in FindingIds :
        /\ findings[i].occurrence_count = calls[findings[i].fingerprint]
        /\ \A j \in FindingIds :
              findings[i].fingerprint = findings[j].fingerprint => i = j

RECURSIVE Fingerprints(_)
Fingerprints(summary) ==
    IF summary = <<>> THEN {}
    ELSE {Head(summary).fingerprint} \cup Fingerprints(Tail(summary))

\* C2: two completed runs on the unchanged tree leave the same set of
\* fingerprints in the store and store the same health_score, and after
\* the second run every occurrence_count is exactly 1 more than after the
\* first.
C2_SecondRunCountsOnce ==
    (prevRun.scan # 0 /\ lastRun.report = prevRun.report) =>
        /\ Fingerprints(lastRun.store) = Fingerprints(prevRun.store)
        /\ scans[lastRun.scan].health_score = scans[prevRun.scan].health_score
        /\ Len(lastRun.store) = Len(prevRun.store)
        /\ \A i \in 1..Len(lastRun.store) :
              lastRun.store[i].occurrence_count
                  = prevRun.store[i].occurrence_count + 1

\* fingerprints of the candidates a completed scan passed to find_or_create
Detected(s) ==
    LET c == Candidates(scans[s].report_json[1])
    IN {FingerprintOf(c[i]) : i \in 1..Len(c)}

ReferencedBy(s) == {findings[i].fingerprint : i \in FindingIdsOf(findings, s)}

Analysed == {s \in 1..Len(scans) : scans[s].report_json # <<>>}

\* the analyzers found one hardcoded external path and nothing else
OneHardcodedPath(t) ==
    /\ Len(t.external) = 1
    /\ t.external[1].bucket = "hardcoded_external_paths"
    /\ t.duplicate = <<>> /\ t.orphan = <<>> /\ t.commented = <<>>
    /\ t.python_errors = 0 /\ t.xml_errors = 0

\* C12: when the analyzers report exactly one hardcoded external path, no
\* other finding and no parse error, the health score is 85.
C12_OneHardcodedPathScores85 ==
    \A s \in Analysed : OneHardcodedPath(tree) => scans[s].health_score = 85

CountOf(items, bucket) ==
    Cardinality({i \in 1..Len(items) : items[i].bucket = bucket})

\* ten times the weighted sum of the claim: 100 minus 10 per critical
\* issue, 2 per warning, 0.5 per duplicate issue, 0.3 per orphan issue, 15,
\* 10, 8 and 5 per kind of boundary violation, 2 per parse error
WeightedTenths(t, report) ==
    1000 - 100 * Len(report.critical_issues) - 20 * Len(report.warnings)
         - 5 * Cardinality({i \in 1..Len(t.duplicate) :
                               t.duplicate[i].bucket # "similar_models"})
         - 3 * Len(t.orphan)
         - 150 * CountOf(t.external, "hardcoded_external_paths")
         - 100 * CountOf(t.external, "relative_path_escapes")
         - 80 * CountOf(t.external, "suspicious_file_operations")
         - 50 * CountOf(t.external, "external_imports")
         - 20 * (t.python_errors + t.xml_errors)

\* C13: the health score is the weighted sum truncated to an integer and
\* clamped to 0..100.
C13_ScoreTruncatedAndClamped ==
    \A s \in Analysed :
        LET total == WeightedTenths(tree, scans[s].report_json[1])
            score == scans[s].health_score
        IN /\ score \in 0..100
           /\ total < 10 => score = 0
           /\ total >= 1000 => score = 100
           /\ (total >= 10 /\ total < 1000) =>
                 (10 * score <= total /\ total < 10 * score + 10)

\* a run stored the score of a tree whose weighted sum is below 0
C13_Witness ==
    \E s \in Analysed :
        /\ WeightedTenths(tree, scans[s].report_json[1]) < 0
        /\ scans[s].state = "completed"

AnalyzerItems(t) == t.duplicate \o t.orphan \o t.commented \o t.external

Declared(t, sevs) ==
    {i \in 1..Len(AnalyzerItems(t)) : AnalyzerItems(t)[i].severity \in sevs}

\* C14: every analyzer finding declared error or critical is in
\* critical_issues once and every finding declared warning is in warnings
\* once, whichever analyzer produced it.
C14_BucketBySeverityAlone ==
    \A s \in Analysed :
        LET report == scans[s].report_json[1]
        IN /\ Len(report.critical_issues)
                = Cardinality(Declared(tree, {"error", "critical"}))
           /\ Len(report.warnings) = Cardinality(Declared(tree, {"warning"}))

ScannerRecords ==
    results.scan_results.models \o results.scan_results.functions
    \o results.scan_results.imports \o results.scan_results.records

\* C15: with a non-empty module allow-list, every record of every scanner
\* and file-walking analyzer comes from a file whose first path segment is
\* an allow-listed name.
C15_ModuleFilterExact ==
    source.module_filter # <<>> =>
        \A i \in 1..Len(ScannerRecords) :
            \E k \in 1..Len(source.module_filter) :
                ScannerRecords[i].file.module = source.module_filter[k]

\* the Python files the Code Scanner opens, in walk order
PythonScanned ==
    SelectSeq(source.disk,
              LAMBDA f : Suffix(f.name) = ".py"
                         /\ InFilter(source.module_filter, f))

PythonWalkDone == results.walk = 0 \/ results.walk > 1

RecordsOf(files, kind) == [i \in 1..Len(files) |-> Record(kind, files[i])]

\* C16: after the Code Scanner has walked the tree, its errors list has
\* one entry for each file that does not parse, naming it, and its models,
\* functions and imports are those of all the other files, as without the
\* broken file.
C16_BrokenFileSkipped ==
    PythonWalkDone =>
        LET good == SelectSeq(PythonScanned, LAMBDA f : f.name = "models.py")
            bad == SelectSeq(PythonScanned, LAMBDA f : f.name = "broken.py")
            r == results.scan_results
        IN /\ r.errors = RecordsOf(bad, "Syntax error")
           /\ r.models = RecordsOf(good, "model")
           /\ r.functions = RecordsOf(good, "function")
           /\ r.imports = RecordsOf(good, "import")

\* the scanner walked a file with a model and then the one broken file
C16_Witness ==
    /\ PythonWalkDone
    /\ Len(PythonScanned) = 2
    /\ PythonScanned[1].name = "models.py"
    /\ PythonScanned[2].name = "broken.py"
    /\ Len(results.scan_results.errors) = 1

\* the two entities of a similar_models finding
EntitiesOf(finding) ==
    {<<finding.model1, finding.model1_file>>,
     <<finding.model2, finding.model2_file>>}

\* C17: the similarity of two field sets is the same in both argument
\* orders, and no two similar_models findings are about the same unordered
\* pair of entities, in whatever order the IR lists the entities.
C17_SimilaritySymmetric ==
    /\ \A i, j \in 1..Len(source.models) :
          Jaccard(source.models[i].fields, source.models[j].fields)
            = Jaccard(source.models[j].fields, source.models[i].fields)
    /\ \A k, l \in 1..Len(results.similar_models) :
          EntitiesOf(results.similar_models[k])
            = EntitiesOf(results.similar_models[l]) => k = l

\* the detector reported two pairs out of three similar models whose field
\* sets differ in size
C17_Witness ==
    /\ results.todo = <<>>
    /\ Len(results.similar_models) >= 2
    /\ \E i, j \in 1..Len(source.models) :
          /\ source.models[i].fields # source.models[j].fields
          /\ AtLeast(Jaccard(source.models[i].fields, source.models[j].fields),
                     7, 10)

Markers == {"_old", "_v2", "_copy", "old_", "copy", "original"}

\* the name carries a rename marker
Marked(name) == \E i \in 1..Len(name) : Lower(name[i]) \in Markers

\* the name without the marker that the first matching pattern names
Stripped(name) ==
    LET k == CHOOSE k \in 1..Len(RenamePatterns) :
                /\ Search(RenamePatterns[k], name)
                /\ \A l \in 1..(k - 1) : ~Search(RenamePatterns[l], name)
    IN Sub(RenamePatterns[k], name)

\* the names the loop has been through that carry a marker
CheckedMarked ==
    SelectSeq(SubSeq(source.names, 1, Len(source.names) - Len(results.todo)),
              Marked)

\* C18: every occurrence of a name that matches a rename pattern has one
\* renamed_component finding: of severity warning with original = the
\* stripped name when the stripped name is among the names, of severity
\* info with original = None when it is not.
C18_RenameReportedOnce ==
    /\ Len(results.renamed_components) = Len(CheckedMarked)
    /\ \A k \in 1..Len(CheckedMarked) :
          LET name == CheckedMarked[k]
              finding == results.renamed_components[k]
          IN /\ finding.renamed = name
             /\ IF InNames(source.names, Stripped(name))
                THEN finding.severity = "warning"
                     /\ finding.original = <<Stripped(name)>>
                ELSE finding.severity = "info" /\ finding.original = <<>>

\* Foo_old was linked to Foo, Bar_old was reported without an original and
\* a name with a marker at both ends was reported once
C18_Witness ==
    /\ results.todo = <<>>
    /\ \E k \in 1..Len(results.renamed_components) :
          /\ results.renamed_components[k].renamed = <<"Foo", "_old">>
          /\ results.renamed_components[k].original = <<(<<"Foo">>)>>
    /\ \E k \in 1..Len(results.renamed_components) :
          /\ results.renamed_components[k].renamed \in
                {<<"Bar", "_old">>, <<"old_", "Foo", "_old">>}
          /\ results.renamed_components[k].original = <<>>

\* the views the loop has been through
CheckedViews ==
    SubSeq(source.views, 1, Len(source.views) - Len(results.todo))

\* the entity is known to the static IR or to the live registry
KnownEntity(name) ==
    /\ name # ""
    /\ \/ \E i \in 1..Len(source.models) : source.models[i]._name = name
       \/ name \in DOMAIN source.registry

\* the attributes of the entity: the fields of every record that declares
\* it, and its fields in the registry
AttributesOf(name) ==
    UNION {source.models[i].fields :
              i \in {j \in 1..Len(source.models) : source.models[j]._name = name}}
    \cup (IF name \in DOMAIN source.registry THEN source.registry[name] ELSE {})

DanglingOf(view) ==
    view.field_references
        \ (AttributesOf(view.view_model) \cup MagicFields \cup CommonMixinFields)

FindingsOfView(view) ==
    SelectSeq(results.dangling_field_refs,
              LAMBDA f : f.view_xml_id = view.xml_id)

\* C19: a view bound to a known entity has exactly one dangling_field_refs
\* finding if and only if it references a field that is neither an
\* attribute of the entity nor in the exclusion lists, and the finding's
\* missing_fields are exactly those fields.
C19_DanglingFieldsExact ==
    \A i \in 1..Len(CheckedViews) :
        LET view == CheckedViews[i]
        IN KnownEntity(view.view_model) =>
              IF DanglingOf(view) = {}
              THEN FindingsOfView(view) = <<>>
              ELSE /\ Len(FindingsOfView(view)) = 1
                   /\ FindingsOfView(view)[1].missing_fields = DanglingOf(view)

\* the list is a cycle of depends_on edges of the graph
RealCycle(cycle) ==
    /\ Len(cycle) >= 2
    /\ cycle[1] = cycle[Len(cycle)]
    /\ \A i \in 1..(Len(cycle) - 1) :
          /\ cycle[i] \in DOMAIN source.graph
          /\ cycle[i + 1] \in source.graph[cycle[i]]

\* C20: find_circular_dependencies does not raise, every list it returns is
\* a real cycle and no two returned cycles have the same sorted membership.
C20_CyclesWithoutRaising ==
    /\ ~results.raised
    /\ \A i \in 1..Len(results.circular) :
          /\ RealCycle(results.circular[i].cycle)
          /\ \A j \in 1..Len(results.circular) :
                SortedTuple(results.circular[i].cycle)
                    = SortedTuple(results.circular[j].cycle) => i = j

\* the band of a score, by its interval
Band(score) ==
    CASE score \in 90..100 -> "Excellent"
      [] score \in 75..89 -> "Good"
      [] score \in 60..74 -> "Fair"
      [] score \in 40..59 -> "Poor"
      [] score \in 0..39 -> "Critical"

\* C22: for every score in 0..100 the status is the band of the score, and
\* the health_status of a report and of the scan that stored it is the
\* band of the health_score next to it.
C22_StatusIsBandOfScore ==
    /\ \A score \in 0..100 : GetHealthStatus(score) = Band(score)
    /\ \A s \in Analysed :
          /\ scans[s].report_json[1].health_status
                = Band(scans[s].report_json[1].health_score)
          /\ scans[s].health_status = Band(scans[s].health_score)

\* a completed scan stored a score on the lower limit of a band
C22_Witness ==
    \E s \in Analysed :
        /\ scans[s].state = "completed"
        /\ scans[s].health_score = 75
        /\ scans[s].health_status = "Good"

\* the fields of a finding that only its creation sets
Identity(finding) ==
    <<finding.first_seen_date, finding.first_seen_scan_id, finding.fingerprint,
      finding.category, finding.finding_type, finding.title,
      finding.details_json>>

\* C28: a find_or_create call that hits an existing fingerprint leaves the
\* first-seen fields, the fingerprint, category, finding_type, title and
\* details_json of that record and every other record as they were; the
\* first_seen_date of a record is the time of the call that created it, no
\* later step changes it, and last_seen_date never precedes it.
C28_FirstSeenKept ==
    /\ [](\A i \in 1..Len(findings) :
              findings[i].first_seen_date <= findings[i].last_seen_date)
    /\ [][/\ \A i \in 1..Len(findings) :
                /\ i \in 1..Len(findings')
                /\ findings'[i].first_seen_date = findings[i].first_seen_date
          /\ (ret'.op = "find_or_create" /\ ret'.existed) =>
                /\ Len(findings') = Len(findings)
                /\ Identity(findings'[ret'.id]) = Identity(findings[ret'.id])
                /\ \A i \in 1..Len(findings) :
                      i # ret'.id => findings'[i] = findings[i]
          /\ (ret'.op = "find_or_create" /\ ~ret'.existed) =>
                findings'[ret'.id].first_seen_date = now]_vars

\* a later run detected a finding again: its last_seen_date moved on, its
\* first_seen_date did not
C28_Witness ==
    /\ ret.op = "find_or_create" /\ ret.existed
    /\ findings[ret.id].first_seen_scan_id # ret.scan
    /\ findings[ret.id].first_seen_date < findings[ret.id].last_seen_date

\* C29: the run that completes has written findings_new +
\* findings_recurring = the number of critical issues, warnings and
\* recommendations of its report, and findings_new = the number of finding
\* records created since the run started.
C29_CountsMatchReport ==
    [][\A s \in 1..Len(scans) :
          (scans[s].state = "running" /\ scans'[s].state = "completed") =>
             /\ scans'[s].findings_new + scans'[s].findings_recurring
                   = Len(Candidates(scans[s].report_json[1]))
             /\ scans'[s].findings_new
                   = Len(findings) - Len(proc[s].store_before)]_vars

\* the first run ever met one fingerprint twice: the second candidate was
\* counted as recurring
C29_Witness ==
    /\ Len(scans) = 1
    /\ scans[1].state = "completed"
    /\ scans[1].findings_new >= 1
    /\ scans[1].findings_recurring >= 1

\* the finding_type under which _categorize_issues files an item
TypeOf(t, item) ==
    IF \E i \in 1..Len(t.commented) : t.commented[i] = item
    THEN "commented_" \o item.bucket \o "_code"
    ELSE item.bucket

\* the item is one that the analyzers declared with a severity in sevs
FromDeclared(t, type, details, sevs) ==
    \E i \in Declared(t, sevs) :
        /\ TypeOf(t, AnalyzerItems(t)[i]) = type
        /\ AnalyzerItems(t)[i].details = details

\* C30: every finding record has severity critical, warning or
\* recommendation; every issue in a report bucket and every finding record
\* of an analyzer comes from a finding declared error, critical or warning,
\* never from one declared info; a finding declared error in a bucket the
\* report reads is stored as critical.
C30_InfoNeverStored ==
    /\ \A i \in 1..Len(findings) :
          /\ findings[i].severity \in {"critical", "warning", "recommendation"}
          /\ findings[i].severity # "recommendation" =>
                FromDeclared(tree, findings[i].finding_type,
                             findings[i].details_json,
                             {"error", "critical", "warning"})
    /\ \A s \in Analysed :
          LET report == scans[s].report_json[1]
              issues == report.critical_issues \o report.warnings
          IN \A k \in 1..Len(issues) :
                FromDeclared(tree, issues[k].type, issues[k].details,
                             {"error", "critical", "warning"})
    /\ \A s \in Analysed :
          scans[s].state = "completed" =>
             \A i \in Declared(tree, {"error"}) :
                \E f \in 1..Len(findings) :
                    /\ findings[f].severity = "critical"
                    /\ findings[f].finding_type = AnalyzerItems(tree)[i].bucket

\* a run completed on a tree with findings declared info and error: the
\* error is in the store as critical
C30_Witness ==
    /\ Declared(tree, {"info"}) # {}
    /\ Cardinality(Declared(tree, {"info"})) >= 4
    /\ \E s \in Analysed : scans[s].state = "completed"
    /\ \E f \in 1..Len(findings) :
          /\ findings[f].severity = "critical"
          /\ findings[f].finding_type = "dangling_model_refs"

\* the class statements that declare the entity
DeclarationsOf(name) ==
    {i \in 1..Len(source.classes) :
        /\ source.classes[i]._name = name
        /\ source.classes[i].base # <<"object">>}

\* the base type of the class statement is the abstract or transient one
AbstractOrTransient(class) ==
    class.base[Len(class.base)] \in {"AbstractModel", "TransientModel"}

ReportedOrphan(name) ==
    \E k \in 1..Len(results.orphaned_models) :
        results.orphaned_models[k].model = name

OrphanCheckDone == results.classes = <<>> /\ results.todo = <<>>

\* C23: once the check is done, an entity whose class statements all have
\* the abstract or transient base type is not reported, and an entity
\* whose class statements all have the plain base type is reported if and
\* only if it has no view and no action.
C23_OrphanedIffUnbound ==
    OrphanCheckDone =>
        \A name \in {"task", "job"} :
            /\ (DeclarationsOf(name) # {}
                /\ \A i \in DeclarationsOf(name) :
                      AbstractOrTransient(source.classes[i]))
               => ~ReportedOrphan(name)
            /\ (DeclarationsOf(name) # {}
                /\ \A i \in DeclarationsOf(name) :
                      ~AbstractOrTransient(source.classes[i]))
               => (ReportedOrphan(name) <=>
                      /\ name \notin source.models_with_views
                      /\ name \notin source.models_with_actions)

\* the references of the menu that are not found among the local ids
Unresolved(menu) ==
    (IF menu.action # <<>> /\ menu.action \notin source.actions
     THEN {menu.action} ELSE {})
    \cup (IF menu.parent_id # <<>>
             /\ \A i \in 1..Len(source.menus) :
                   source.menus[i].xml_id # menu.parent_id
          THEN {menu.parent_id} ELSE {})

HasUnresolved(menu) == Unresolved(menu) # {}

\* the menus the loop has been through that have an unresolved reference
CheckedUnresolved ==
    SelectSeq(SubSeq(source.menus, 1, Len(source.menus) - Len(results.todo)),
              HasUnresolved)

\* C24: every menu with an action or parent reference that is not found
\* locally has one orphaned_menus finding, of severity error when one of
\* the unresolved references is unqualified and info when all of them are
\* qualified with a module; a menu whose references resolve has none.
C24_MenuFindingPerBrokenMenu ==
    /\ Len(results.orphaned_menus) = Len(CheckedUnresolved)
    /\ \A k \in 1..Len(CheckedUnresolved) :
          LET menu == CheckedUnresolved[k]
              finding == results.orphaned_menus[k]
          IN /\ finding.menu_xml_id = menu.xml_id
             /\ finding.severity =
                   IF \E ref \in Unresolved(menu) : Len(ref) = 1
                   THEN "error" ELSE "info"

\* one menu with a missing action and a parent in another module was
\* reported as error, one with only a reference to another module as info
C24_Witness ==
    /\ results.todo = <<>>
    /\ \E k \in 1..Len(results.orphaned_menus) :
          /\ results.orphaned_menus[k].severity = "error"
          /\ Len(results.orphaned_menus[k].issues) = 2
          /\ results.orphaned_menus[k].issues[2].type = "external_parent"
    /\ \E k \in 1..Len(results.orphaned_menus) :
          results.orphaned_menus[k].severity = "info"

CodeComment(i) == source.lines[i].comment /\ source.lines[i].code

\* the runs of consecutive code-like comment lines a..b that no such line
\* precedes or follows
IsRun(a, b) ==
    /\ a <= b
    /\ \A i \in a..b : CodeComment(i)
    /\ a = 1 \/ ~CodeComment(a - 1)
    /\ b = Len(source.lines) \/ ~CodeComment(b + 1)

\* the runs that are to be reported: two lines or more, or one line with a
\* deletion marker
Reportable(a, b) == IsRun(a, b) /\ (b > a \/ source.lines[a].marker)

BlockFindings ==
    SelectSeq(results.findings,
              LAMBDA f : f.finding_type = "commented_python_code")

MarkedCover(i) ==
    {k \in 1..Len(results.findings) :
        /\ results.findings[k].has_deletion_marker
        /\ i \in results.findings[k].line_start..results.findings[k].line_end}

\* C26: no source line is covered by two findings with
\* has_deletion_marker: _find_deletion_markers leaves out the lines that a
\* commented-code block finding has captured.
C26_MarkedLineCountedOnce ==
    \A i \in 1..Len(source.lines) : Cardinality(MarkedCover(i)) <= 1

Mapper == {"relationship_mapping"}

\* the phases that a phase of the run depends on
DependsOnPhases(phase, include_registry) ==
    CASE phase \in Analyzers \cup Mapper ->
            StaticScanners
            \cup (IF include_registry THEN {"registry_scan"} ELSE {})
      [] phase \in {"categorize_issues", "generate_recommendations",
                    "generate_summary"} ->
            Analyzers \cup Mapper
      [] phase = "calculate_health_score" ->
            Analyzers \cup Mapper \cup {"categorize_issues"}
      [] phase \in {"write_scan", "create_findings"} ->
            {"categorize_issues", "generate_recommendations",
             "calculate_health_score", "generate_summary", "return_report"}
      [] OTHER -> {}

DoneOf(r) == {r.done[k] : k \in 1..Len(r.done)}

\* C21: within one run a phase returns only after every phase it depends
\* on has returned: an analyzer and the mapper after the static scanners
\* and, when the registry scan is enabled, after the registry scanner; the
\* report steps after every analyzer and the mapper; the health score
\* after critical_issues and warnings are populated; the writes to the
\* finding store after the report is final.  The score of the report is
\* the score of the issues of the tree, and nothing is in the finding
\* store while the report is not returned.
C21_PhasesAfterDependencies ==
    /\ [](/\ (results.stored # <<>> => results.returned # <<>>)
          /\ ("calculate_health_score" \in DoneOf(results)
                => results.report.health_score
                     = GenerateReport(source.tree).health_score))
    /\ [][\A k \in 1..Len(results'.done) :
             k > Len(results.done) =>
                DependsOnPhases(results'.done[k], source.include_registry)
                   \subseteq DoneOf(results)]_vars

\* a run with the registry scan that has stored findings
C21_Witness ==
    /\ source.include_registry
    /\ "registry_scan" \in DoneOf(results)
    /\ "create_findings" \in DoneOf(results)
    /\ results.stored # <<>>
    /\ results.scan_score # <<100>>

\* the IR as the scanners left it
IRUnchanged ==
    /\ results.python_scan = source.models
    /\ results.xml_scan = source.views
    /\ results.registry_scan = source.registry

AllAnalyzed ==
    /\ results.duplicate_findings # <<>>
    /\ results.orphan_findings # <<>>
    /\ results.full_traces # <<>>

\* the structures of the three that a step has written
Written ==
    {k \in {"duplicate", "orphan", "mapper"} :
        CASE k = "duplicate" ->
                results'.duplicate_findings # results.duplicate_findings
          [] k = "orphan" ->
                results'.orphan_findings # results.orphan_findings
          [] OTHER ->
                \/ results'.model_to_views # results.model_to_views
                \/ results'.full_traces # results.full_traces}

====
